---- MODULE Spec2Model ----
(***************************************************************************)
(* A model of the Georznab acquisition orchestrator (rss/builder.py), its   *)
(* execution guard (utils/filelock.py) and the feed reader's store load     *)
(* (routers/torznab.py).                                                    *)
(*                                                                          *)
(* Three specifications share the module:                                   *)
(*   Spec / FairSpec  concurrent run attempts of main(): the FileLock       *)
(*                    protocol on the lock path, the load-merge-save of     *)
(*                    publish_results on the store file, and a feed reader  *)
(*                    loading the store at any moment;                      *)
(*   RunSpec          one run of main() step by step (health gate,          *)
(*                    planning, search, download trigger, publish,          *)
(*                    refresh) with every external call free to fail;       *)
(*   PublishSpec      publish_results as a function of the existing store,  *)
(*                    the new results, the retention window and the clock.  *)
(***************************************************************************)
EXTENDS Integers, Sequences, FiniteSets, TLC

(***************************************************************************)
(* Bounds of the model.                                                     *)
(***************************************************************************)
\* Number of run attempts of main() (processes or threads) in Spec.
NumRuns == 3
\* Number of run attempts of main() in FairSpec (at most NumRuns).
NumFairRuns == 2
\* Ticks of the model clock per day (timedelta(days=1)).
DayTicks == 2
\* Largest clock value drawn for a timestamp in PublishSpec.
MaxTime == 3
\* Largest retention window (days) drawn in PublishSpec.
MaxRetention == 1
\* Number of distinct descrLink keys drawn in PublishSpec.
NumKeys == 2
\* Longest result list drawn in PublishSpec.
MaxLen == 2
\* Largest number of search requests the planner emits per library in RunSpec.
MaxRequests == 2
\* Longest result list of each of the two publishes in RepublishSpec.
MaxBatch == 1
\* Number of movies the library service knows in PlanSpec.
NumMovies == 2
\* Episodes per season of the first series in PlanSpec.
MaxEpisodes == 2
\* Largest number of candidates a search returns in RequestSpec.
MaxCands == 2
\* Largest poll interval (wait) of wait_search in WaitSpec.
MaxWait == 2
\* Largest timeout argument of wait_search in WaitSpec.
MaxTimeout == 3
\* Largest "total" a search job reports in WaitSpec.
MaxTotal == 1
\* Number of job ids search_start can return in WaitSpec.
NumJobs == 2
\* Largest pause of retry_until_ok in GateSpec.
MaxPause == 3
\* Largest timeout (deadline) of retry_until_ok in GateSpec.
MaxDeadline == 4
\* Largest maximum age (hours) of the cron job in CronSpec.
MaxAge == 2
\* Number of scheduled checks of the cron daemon in CronSpec.
MaxChecks == 3
\* Largest finite timeout (seconds) of acquire in AcquireSpec.
MaxLockTimeout == 2
\* Attempts of acquire the model follows in AcquireSpec.
MaxAttempts == 5
\* Largest pubDate of a candidate in OptimizeSpec (0 is a missing pubDate).
MaxPubDate == 2
\* search_status calls of one wait_search the model follows in DriverSpec.
MaxPolls == 2
\* Requests to the webhook routes in WebhookSpec.
MaxHooks == 2

(***************************************************************************)
(* Program constants.                                                       *)
(***************************************************************************)
\* --retention default (days).
DefaultRetention == 365
\* IsoTimeFormatter: a missing, empty or unparseable timestamp (no datetime).
NoTime == -1
\* wait_search: the timeout of a --whatif run.
WhatifTimeout == 5

Runs == 1..NumRuns
\* The run attempts of FairSpec.
FairRuns == 1..NumFairRuns
\* Inodes the lock path can name over time; 0 stands for "no inode" / None.
Inodes == 1..(NumRuns + 1)

VARIABLES
    \* ---- FileLock and main(), one entry per run attempt (Spec) ----
    pc,          \* position of each run attempt in main()
    fd,          \* FileLock._fd: inode of the open lock file, 0 = None
    locked,      \* FileLock._locked
    waiting,     \* wait_seconds > 0: a flock attempt of this acquire() failed
    rc,          \* return value of main(): -1 while running, 0 or 1
    link,        \* inode the lock path names, 0 = the lock file does not exist
    holder,      \* per inode: the run whose open file description holds flock
    \* ---- the store as the concurrent runs and the feed reader see it ----
    existing,    \* publish_results: the list each run loaded
    saved,       \* runs whose save_json has returned
    reader,      \* torznab_api: outcome of the last load of the store
    \* ---- the store file (all specifications) ----
    storeFile,   \* [exists, bytes]: the published JSON document on disk
    \* ---- one run of main() step by step (RunSpec) ----
    args,        \* parse_args: [name, qbit, whatif]
    rpc,         \* position in main() / run_for_library()
    lib,         \* name argument of the current run_for_library call
    nreq,        \* len(search_requests) of the current library
    idx,         \* index of the request the loop is at (1-based)
    optimized,   \* optimize_results output for the current request
    all_top,     \* all_top: results collected so far for the current library
    held,        \* the run holds the Execution Guard (lock._locked)
    exc,         \* the call whose exception is propagating, "none" otherwise
    rrc,         \* main()'s return value, -1 while running
    log,         \* external calls made so far, in order
    store0,      \* content of the store file when main() was entered
    \* ---- publish_results as a function (PublishSpec) ----
    results,     \* results argument
    days,        \* retention_days argument
    now,         \* the clock (IsoTimeFormatter(): utcnow)
    ppc,         \* "call" before publish_results runs, "done" after
    results2,    \* results argument of a second publish (RepublishSpec)
    \* ---- the Request Planner of run_for_library (PlanSpec) ----
    kind,        \* arr.TypeName: "Movies" or "TV"
    wanted,      \* wanted.get("records", [])
    queued,      \* queue.get("records", [])
    totals,      \* per season: statistics.totalEpisodeCount, 0 = none known
    search_requests,  \* the planner's output
    plpc,        \* "call" before the planner runs, "done" after
    \* ---- one iteration of the request loop (RequestSpec) ----
    request,     \* item: the search request of this iteration
    candidates,  \* results = qBit.search(...)
    filtered,    \* the candidates that passed the filter
    added,       \* the results handed to qBit.add_torrent
    \* ---- QBitClient.wait_search (WaitSpec) ----
    wargs,       \* the arguments [wait, timeout, whatif]
    timeout,     \* the local timeout, after the whatif override
    elapsed,     \* elapsed
    status,      \* status: the last answer of search_status, <<>> = None
    calls,       \* the API calls made so far: [op, at, st], at = elapsed
    ret,         \* the return value, -1 while running
    wpc,         \* position in wait_search
    \* ---- QBitClient.search around wait_search (WaitSpec) ----
    job_id,      \* job_id = self.search_start(query), 0 before
    fetched,     \* the job ids search_results was called with, in order
    sret,        \* the return value of search, <<"none">> while running
    spc,         \* position in search
    \* ---- init_library: the two retry_until_ok calls (GateSpec) ----
    glabel,      \* the service being checked: "arr" or "qBit"
    gargs,       \* the arguments [pause, timeout] of this retry_until_ok
    waited,      \* waited
    outcomes,    \* per invocation of fn so far: TRUE = returned, FALSE = raised
    gerr,        \* the invocation whose exception left retry_until_ok, 0 = none
    gpc,         \* position in init_library
    \* ---- cron/rssrefresh.py (CronSpec) ----
    cargs,       \* the arguments [daemon, force, max_age_hours]
    cnow,        \* time.time(), in hours
    feed,        \* the feed file as the cron job sees it: [exists, mtime]
    checks,      \* per check made: [at, exists, age, forced, started]
    crc,         \* exit code of a single run, -1 while running
    cpc,         \* position of the cron job
    \* ---- FileLock.acquire(timeout) against another process (AcquireSpec) ----
    atimeout,    \* the timeout argument, -1 = wait indefinitely
    wait_seconds,  \* wait_seconds
    tries,       \* per pass of the loop: "ok", "busy" (flock failed) or
                 \* "open_failed" (os.open failed)
    afd,         \* self._fd is not None
    alocked,     \* self._locked
    other,       \* another process holds the flock of the lock file
    apc,         \* "try" in the loop, "acquired", "timed_out"
    \* ---- the request loop and the search API calls it makes (DriverSpec) ----
    dreqs,       \* search_requests, in planner order
    dix,         \* the item the loop is at (1-based)
    djob,        \* job_id of the current qBit.search, 0 before search_start
    dpolls,      \* search_status calls of the current wait_search
    dlog,        \* the search API calls so far: [op, req, arg, id]
    dtop,        \* all_top: [job, req, meta] per collected result
    dpc,         \* position in the loop
    \* ---- get_next_run_time and the wait of the daemon loop (ScheduleSpec) ----
    sched,       \* parse_cron_schedule: [minute, hour], -1 = '*' (None)
    snow,        \* datetime.now(), in minutes since midnight of day 0
    next_run,    \* next_run, in the same unit, -1 before the call
    scpc,        \* "call", "sleep", "check"
    \* ---- routers/webhook.py (WebhookSpec) ----
    hlog,        \* per request handled: [req, status]
    htasks,      \* background tasks created and not yet run
    hruns,       \* the run_requests calls so far: [by, type, external]
    \* ---- the tvsearch branch of torznab_api (FeedSpec) ----
    fstore,      \* torrents: the records loaded from the feed file
    fquery,      \* the query parameters [apikey, tvdbid, season, ep]
    fitems,      \* items handed to generate_rss, <<"none">> before
    fpc          \* "call", "done", "rejected"

lockVars == <<pc, fd, locked, waiting, rc, link, holder>>
concVars == <<existing, saved, reader>>
runVars == <<args, rpc, lib, nreq, idx, optimized, all_top, held, exc, rrc, log, store0>>
pubVars == <<results, days, now, ppc, results2>>
planVars == <<kind, wanted, queued, totals, search_requests, plpc>>
reqVars == <<request, candidates, filtered, added>>
waitVars == <<wargs, timeout, elapsed, status, calls, ret, wpc, job_id, fetched, sret, spc>>
gateVars == <<glabel, gargs, waited, outcomes, gerr, gpc>>
cronVars == <<cargs, cnow, feed, checks, crc, cpc>>
acqVars == <<atimeout, wait_seconds, tries, afd, alocked, other, apc>>
drvVars == <<dreqs, dix, djob, dpolls, dlog, dtop, dpc>>
schedVars == <<sched, snow, next_run, scpc>>
hookVars == <<hlog, htasks, hruns>>
feedVars == <<fstore, fquery, fitems, fpc>>
extVars == <<drvVars, schedVars, hookVars, feedVars>>
coreVars == <<lockVars, concVars, storeFile, runVars, pubVars, planVars, reqVars,
              waitVars, gateVars, cronVars, acqVars>>
auxVars == <<gateVars, cronVars, acqVars, extVars>>
funVars == <<planVars, reqVars, waitVars, auxVars>>
vars == <<lockVars, concVars, storeFile, runVars, pubVars, funVars>>

(***************************************************************************)
(* Records and the JSON document on disk.                                   *)
(*                                                                          *)
(* A published record keeps the fields the merge reads or replaces:         *)
(* descrLink (the unique key), lastAdded and score.  The file is a sequence *)
(* of tokens, "[" item* "]", so that a truncated or overlaid file is a      *)
(* value the model can hold and json.load can reject.                       *)
(***************************************************************************)
Rec(k, t, s) == [descrLink |-> k, lastAdded |-> t, score |-> s]

TokOpen == [t |-> "["]
TokClose == [t |-> "]"]
TokItem(r) == [t |-> "item", v |-> r]
\* A whole JSON document that is an object, not a list: {}.
TokObject == [t |-> "{}"]
\* A byte sequence that is not valid UTF-8.
TokBadByte == [t |-> "0xff"]
\* A list element that is not an object (a number, a string, null).
Scalar == [scalar |-> TRUE]
IsDict(v) == "scalar" \notin DOMAIN v

NoFile == [exists |-> FALSE, bytes |-> <<>>]
File(b) == [exists |-> TRUE, bytes |-> b]

\* json.dump(data, f) of a list: the serialised document.
json_dump(data) ==
    <<TokOpen>> \o [i \in 1..Len(data) |-> TokItem(data[i])] \o <<TokClose>>

\* The bytes parse as one JSON list: "[" items "]" and nothing else.
IsJsonList(b) ==
    /\ Len(b) >= 2
    /\ b[1] = TokOpen
    /\ b[Len(b)] = TokClose
    /\ \A i \in 2..(Len(b) - 1) : b[i].t = "item"

\* json.load of well-formed bytes.
json_load(b) == [i \in 1..(Len(b) - 2) |-> b[i + 1].v]

\* load_json(path): "ok" with the parsed document (list tells whether it is
\* a list; data are its elements), or the exception raised.
load_json(f) ==
    IF ~f.exists
    THEN [status |-> "FileNotFoundError", list |-> FALSE, data |-> <<>>]
    ELSE IF \E i \in 1..Len(f.bytes) : f.bytes[i] = TokBadByte
    THEN [status |-> "UnicodeDecodeError", list |-> FALSE, data |-> <<>>]
    ELSE IF f.bytes = <<TokObject>>
    THEN [status |-> "ok", list |-> FALSE, data |-> <<>>]
    ELSE IF ~IsJsonList(f.bytes)
    THEN [status |-> "JSONDecodeError", list |-> FALSE, data |-> <<>>]
    ELSE [status |-> "ok", list |-> TRUE, data |-> json_load(f.bytes)]

\* open(path, "w"): create or truncate.
open_w(f) == File(<<>>)

\* Writing b at offset 0 of a file that holds old: bytes of old beyond
\* Len(b) stay (another writer may have written them since the truncate).
write_at_0(b, old) ==
    IF Len(old) > Len(b) THEN b \o SubSeq(old, Len(b) + 1, Len(old)) ELSE b

(***************************************************************************)
(* publish_results: retention and last-write-wins merge.                    *)
(***************************************************************************)
\* IsoTimeFormatter(value).dt: now when value is None, "" or unparseable.
IsoTime(value, clock) == IF value = NoTime THEN clock ELSE value

\* IsoTimeFormatter().subtract_days(days).dt
subtract_days(clock, d) == clock - d * DayTicks

\* A list in place of the dict: every put appends.
DictPut_append(d, rec) == Append(d, rec)

\* recent[rec["descrLink"]] = rec on an insertion-ordered dict.
DictPut(d, rec) ==
    IF \E i \in 1..Len(d) : d[i].descrLink = rec.descrLink
    THEN [i \in 1..Len(d) |->
             IF d[i].descrLink = rec.descrLink THEN rec ELSE d[i]]
    ELSE Append(d, rec)

RECURSIVE DictPutAll(_, _)
DictPutAll(d, items) ==
    IF items = <<>> THEN d
    ELSE DictPutAll(DictPut(d, Head(items)), Tail(items))

\* The keep loop without the `last >= cutoff` test.
Recent_keep_all(exist, clock, d) == exist

\* A publish that starts from an empty dict whatever the store holds.
Recent_keep_none(exist, clock, d) == <<>>

\* The existing items that pass `last >= cutoff`.
Recent(exist, clock, d) ==
    SelectSeq(exist,
              LAMBDA item : IsoTime(item.lastAdded, clock) >= subtract_days(clock, d))

\* final = list(recent.values()) after both loops.
Final(exist, res, clock, d) ==
    DictPutAll(DictPutAll(<<>>, Recent(exist, clock, d)), res)

\* A loader that recovers the records it finds in a damaged document.
LoadExisting_lenient(f) ==
    LET items == SelectSeq(f.bytes, LAMBDA tok : tok.t = "item")
    IN [i \in 1..Len(items) |-> items[i].v]

\* existing = load_json(path) under contextlib.suppress(Exception), and
\* `if not isinstance(existing, list): existing = []`.
LoadExisting(f) ==
    LET got == load_json(f)
    IN IF got.status = "ok" /\ got.list THEN got.data ELSE <<>>

(***************************************************************************)
(* Idle values: a specification keeps the variables it does not use at      *)
(* these values.                                                            *)
(***************************************************************************)
LockIdle ==
    /\ pc = [r \in Runs |-> "idle"]
    /\ fd = [r \in Runs |-> 0]
    /\ locked = [r \in Runs |-> FALSE]
    /\ waiting = [r \in Runs |-> FALSE]
    /\ rc = [r \in Runs |-> -1]
    /\ link = 0
    /\ holder = [i \in Inodes |-> 0]

ConcIdle ==
    /\ existing = [r \in Runs |-> <<>>]
    /\ saved = {}
    /\ reader = [status |-> "none", torrents |-> <<>>]

RunIdle ==
    /\ args = [name |-> "Movies", qbit |-> FALSE, whatif |-> FALSE]
    /\ rpc = "idle"
    /\ lib = "none"
    /\ nreq = 0
    /\ idx = 0
    /\ optimized = <<>>
    /\ all_top = <<>>
    /\ held = FALSE
    /\ exc = "none"
    /\ rrc = -1
    /\ log = <<>>
    /\ store0 = NoFile

PubIdle ==
    /\ results = <<>>
    /\ days = 0
    /\ now = 0
    /\ ppc = "idle"
    /\ results2 = <<>>

PlanIdle ==
    /\ kind = "none"
    /\ wanted = <<>>
    /\ queued = <<>>
    /\ totals = <<>>
    /\ search_requests = <<>>
    /\ plpc = "idle"

ReqIdle ==
    /\ request = <<>>
    /\ candidates = <<>>
    /\ filtered = <<>>
    /\ added = <<>>

WaitIdle ==
    /\ wargs = <<>>
    /\ timeout = 0
    /\ elapsed = 0
    /\ status = <<>>
    /\ calls = <<>>
    /\ ret = -1
    /\ wpc = "idle"
    /\ job_id = 0
    /\ fetched = <<>>
    /\ sret = <<"none">>
    /\ spc = "idle"

GateIdle ==
    /\ glabel = "none"
    /\ gargs = <<>>
    /\ waited = 0
    /\ outcomes = <<>>
    /\ gerr = 0
    /\ gpc = "idle"

CronIdle ==
    /\ cargs = <<>>
    /\ cnow = 0
    /\ feed = [exists |-> FALSE, mtime |-> 0]
    /\ checks = <<>>
    /\ crc = -1
    /\ cpc = "idle"

AcqIdle ==
    /\ atimeout = -1
    /\ wait_seconds = 0
    /\ tries = <<>>
    /\ afd = FALSE
    /\ alocked = FALSE
    /\ other = FALSE
    /\ apc = "idle"

DrvIdle ==
    /\ dreqs = <<>>
    /\ dix = 0
    /\ djob = 0
    /\ dpolls = 0
    /\ dlog = <<>>
    /\ dtop = <<>>
    /\ dpc = "idle"

SchedIdle ==
    /\ sched = <<>>
    /\ snow = 0
    /\ next_run = -1
    /\ scpc = "idle"

HookIdle ==
    /\ hlog = <<>>
    /\ htasks = <<>>
    /\ hruns = <<>>

FeedIdle ==
    /\ fstore = <<>>
    /\ fquery = <<>>
    /\ fitems = <<"none">>
    /\ fpc = "idle"

ExtIdle == DrvIdle /\ SchedIdle /\ HookIdle /\ FeedIdle

AuxIdle == GateIdle /\ CronIdle /\ AcqIdle /\ ExtIdle

\* Everything but the variables of extVars is at rest.
CoreIdle ==
    /\ LockIdle
    /\ ConcIdle
    /\ RunIdle
    /\ PubIdle
    /\ PlanIdle
    /\ ReqIdle
    /\ WaitIdle
    /\ GateIdle
    /\ CronIdle
    /\ AcqIdle
    /\ storeFile = NoFile

FunIdle == PlanIdle /\ ReqIdle /\ WaitIdle /\ AuxIdle

(***************************************************************************)
(* Spec: concurrent run attempts.                                           *)
(*                                                                          *)
(* main() of run attempt r:                                                 *)
(*   idle -> open -> flock -> run -> load -> save_open -> save_close        *)
(*        -> refresh -> unlock -> remove -> done                            *)
(* "open"/"flock" are the two system calls of one iteration of acquire()'s  *)
(* loop; "run" .. "refresh" is the body of `with lock:`; "unlock"/"remove"  *)
(* are release().  A step that raises inside the body goes to "unlock"      *)
(* (FileLock.__exit__) with rc = 1.                                         *)
(***************************************************************************)
SpecFrame == UNCHANGED <<runVars, pubVars, funVars>>

\* The positions inside the lock-guarded section of main().
Guarded == {"run", "load", "save_open", "save_close", "refresh"}

\* An inode id no path and no file descriptor refers to.
FreeInode ==
    CHOOSE i \in Inodes :
        /\ i # link
        /\ \A r \in Runs : fd[r] # i
        /\ \A j \in Inodes : (j # link /\ \A r \in Runs : fd[r] # j) => i <= j

\* The record a run attempt found and publishes: keyed by the attempt.
FoundBy(r) == <<Rec(r, 0, 0)>>

\* main() is entered: lock = FileLock(lock_path), then `with lock:`.
main_start(r) ==
    /\ pc[r] = "idle"
    /\ pc' = [pc EXCEPT ![r] = "open"]
    /\ UNCHANGED <<fd, locked, waiting, rc, link, holder, concVars, storeFile>>
    /\ SpecFrame

\* acquire(): os.open(lock_file, O_CREAT | O_RDWR).
acquire_open(r) ==
    /\ pc[r] = "open"
    /\ IF link = 0
       THEN /\ link' = FreeInode
            /\ fd' = [fd EXCEPT ![r] = FreeInode]
       ELSE /\ link' = link
            /\ fd' = [fd EXCEPT ![r] = link]
    /\ pc' = [pc EXCEPT ![r] = "flock"]
    /\ UNCHANGED <<locked, waiting, rc, holder, concVars, storeFile>>
    /\ SpecFrame

\* acquire() with a first failed attempt treated as a timeout: TimeoutError
\* leaves __enter__, main()'s handler returns 1.
acquire_flock_no_retry(r) ==
    /\ pc[r] = "flock"
    /\ IF holder[fd[r]] = 0
       THEN /\ holder' = [holder EXCEPT ![fd[r]] = r]
            /\ locked' = [locked EXCEPT ![r] = TRUE]
            /\ pc' = [pc EXCEPT ![r] = "run"]
            /\ UNCHANGED <<fd, waiting, rc>>
       ELSE /\ fd' = [fd EXCEPT ![r] = 0]
            /\ waiting' = [waiting EXCEPT ![r] = TRUE]
            /\ pc' = [pc EXCEPT ![r] = "done"]
            /\ rc' = [rc EXCEPT ![r] = 1]
            /\ UNCHANGED <<holder, locked>>
    /\ UNCHANGED <<link, concVars, storeFile>>
    /\ SpecFrame

\* acquire(): fcntl.flock(fd, LOCK_EX | LOCK_NB).  On success the lock is
\* marked held and acquire returns; on OSError the descriptor is closed and,
\* timeout being -1, the loop sleeps a second and tries again.
acquire_flock(r) ==
    /\ pc[r] = "flock"
    /\ IF holder[fd[r]] = 0
       THEN /\ holder' = [holder EXCEPT ![fd[r]] = r]
            /\ locked' = [locked EXCEPT ![r] = TRUE]
            /\ pc' = [pc EXCEPT ![r] = "run"]
            /\ UNCHANGED <<fd, waiting>>
       ELSE /\ fd' = [fd EXCEPT ![r] = 0]
            /\ waiting' = [waiting EXCEPT ![r] = TRUE]
            /\ pc' = [pc EXCEPT ![r] = "open"]
            /\ UNCHANGED <<holder, locked>>
    /\ UNCHANGED <<rc, link, concVars, storeFile>>
    /\ SpecFrame

\* Where control goes when a call inside `with lock:` raises: __exit__ runs
\* release(), then main()'s handler returns 1.
on_exception(r) ==
    /\ pc' = [pc EXCEPT ![r] = "unlock"]
    /\ rc' = [rc EXCEPT ![r] = 1]

\* run_for_library up to the publish step (health gate, wanted list, queue,
\* planning, searches, download trigger): it reaches publish_results, or one
\* of its calls raises.
run_for_library_search(r) ==
    /\ pc[r] = "run"
    /\ \/ /\ pc' = [pc EXCEPT ![r] = "load"]
          /\ rc' = rc
       \/ on_exception(r)
    /\ UNCHANGED <<fd, locked, waiting, link, holder, concVars, storeFile>>
    /\ SpecFrame

\* publish_results: existing = load_json(publish_path), [] on any exception.
publish_results_load(r) ==
    /\ pc[r] = "load"
    /\ existing' = [existing EXCEPT ![r] = LoadExisting(storeFile)]
    /\ pc' = [pc EXCEPT ![r] = "save_open"]
    /\ UNCHANGED <<fd, locked, waiting, rc, link, holder, saved, reader, storeFile>>
    /\ SpecFrame

\* save_json: open(path, "w") creates or truncates the store file.
save_json_open(r) ==
    /\ pc[r] = "save_open"
    /\ storeFile' = open_w(storeFile)
    /\ pc' = [pc EXCEPT ![r] = "save_close"]
    /\ UNCHANGED <<fd, locked, waiting, rc, link, holder, concVars>>
    /\ SpecFrame

\* save_json: json.dump into the buffered file, flushed when the `with`
\* block closes it.
save_json_close(r) ==
    /\ pc[r] = "save_close"
    /\ storeFile' = File(write_at_0(
           json_dump(Final(existing[r], FoundBy(r), 0, DefaultRetention)),
           storeFile.bytes))
    /\ saved' = saved \cup {r}
    /\ pc' = [pc EXCEPT ![r] = "refresh"]
    /\ UNCHANGED <<fd, locked, waiting, rc, link, holder, existing, reader>>
    /\ SpecFrame

\* arr.update_rss(): returns, and main() returns 0; or raises.
update_rss(r) ==
    /\ pc[r] = "refresh"
    /\ \/ /\ pc' = [pc EXCEPT ![r] = "unlock"]
          /\ rc' = [rc EXCEPT ![r] = 0]
       \/ on_exception(r)
    /\ UNCHANGED <<fd, locked, waiting, link, holder, concVars, storeFile>>
    /\ SpecFrame

\* release(): flock(fd, LOCK_UN), os.close(fd), _fd = None, _locked = False.
release_unlock(r) ==
    /\ pc[r] = "unlock"
    /\ IF fd[r] # 0 /\ locked[r]
       THEN /\ holder' = [holder EXCEPT ![fd[r]] = 0]
            /\ fd' = [fd EXCEPT ![r] = 0]
            /\ locked' = [locked EXCEPT ![r] = FALSE]
       ELSE UNCHANGED <<holder, fd, locked>>
    /\ pc' = [pc EXCEPT ![r] = "remove"]
    /\ UNCHANGED <<waiting, rc, link, concVars, storeFile>>
    /\ SpecFrame

\* release(): os.remove(lock_file), errors suppressed; main() returns.
release_remove(r) ==
    /\ pc[r] = "remove"
    /\ link' = 0
    /\ pc' = [pc EXCEPT ![r] = "done"]
    /\ UNCHANGED <<fd, locked, waiting, rc, holder, concVars, storeFile>>
    /\ SpecFrame

\* torznab_api: json.load of the store file; FileNotFoundError and
\* JSONDecodeError leave torrents = [].
torznab_api_load ==
    /\ LET got == load_json(storeFile)
       IN reader' = [status |-> got.status, torrents |-> got.data]
    /\ UNCHANGED <<lockVars, existing, saved, storeFile>>
    /\ SpecFrame

\* The steps of run attempt r once main() has been entered.
RunStep(r) ==
    \/ acquire_open(r)
    \/ acquire_flock(r)
    \/ run_for_library_search(r)
    \/ publish_results_load(r)
    \/ save_json_open(r)
    \/ save_json_close(r)
    \/ update_rss(r)
    \/ release_unlock(r)
    \/ release_remove(r)

\* A store published by an earlier run: one record, key 0.
OldStore == <<Rec(0, 0, 0)>>

Init ==
    /\ LockIdle
    /\ ConcIdle
    /\ storeFile = File(json_dump(OldStore))
    /\ RunIdle
    /\ PubIdle
    /\ FunIdle

Next ==
    \/ \E r \in Runs : main_start(r)
    \/ \E r \in Runs : RunStep(r)
    \/ torznab_api_load

Spec == Init /\ [][Next]_vars

\* The run attempts alone, under fair scheduling: a run attempt that has
\* entered main() keeps taking steps; entering main() (a trigger) is not
\* forced.  Every call of the body returns or raises (each HTTP call has a
\* timeout, wait_search and retry_until_ok are bounded), so the body's steps
\* are fair too.
FairNext ==
    \/ \E r \in FairRuns : main_start(r)
    \/ \E r \in FairRuns : RunStep(r)

FairSpec == Init /\ [][FairNext]_vars /\ \A r \in FairRuns : WF_vars(RunStep(r))

\* A crash under a lock that is a bare marker file: nothing is released.
crash_keeps_lock(r) ==
    /\ pc[r] \in Guarded
    /\ \A q \in Runs : pc[q] # "dead"
    /\ pc' = [pc EXCEPT ![r] = "dead"]
    /\ UNCHANGED <<fd, locked, waiting, rc, link, holder, concVars, storeFile>>
    /\ SpecFrame

\* The process of a run attempt dies inside the guarded section, without
\* release(): the kernel closes its descriptors, which drops the flock of
\* the open file description (fcntl.flock is tied to it); the lock file
\* stays on disk.  One run attempt dies per behaviour.
crash(r) ==
    /\ pc[r] \in Guarded
    /\ \A q \in Runs : pc[q] # "dead"
    /\ pc' = [pc EXCEPT ![r] = "dead"]
    /\ holder' = [i \in Inodes |-> IF holder[i] = r THEN 0 ELSE holder[i]]
    /\ fd' = [fd EXCEPT ![r] = 0]
    /\ locked' = [locked EXCEPT ![r] = FALSE]
    /\ UNCHANGED <<waiting, rc, link, concVars, storeFile>>
    /\ SpecFrame

\* The body of `with lock:` as one step: run_for_library raises before its
\* publish step, or publishes and update_rss returns or raises.
guarded_body(r) ==
    /\ pc[r] = "run"
    /\ pc' = [pc EXCEPT ![r] = "unlock"]
    /\ \/ /\ rc' = [rc EXCEPT ![r] = 1]
          /\ UNCHANGED <<existing, saved, storeFile>>
       \/ /\ rc' \in {[rc EXCEPT ![r] = 0], [rc EXCEPT ![r] = 1]}
          /\ existing' = [existing EXCEPT ![r] = LoadExisting(storeFile)]
          /\ storeFile' = File(json_dump(
                 Final(LoadExisting(storeFile), FoundBy(r), 0, DefaultRetention)))
          /\ saved' = saved \cup {r}
    /\ UNCHANGED <<fd, locked, waiting, link, holder, reader>>
    /\ SpecFrame

\* The steps of run attempt r with the guarded body as one step.
LockStep(r) ==
    \/ acquire_open(r)
    \/ acquire_flock(r)
    \/ guarded_body(r)
    \/ release_unlock(r)
    \/ release_remove(r)

\* The run attempts under fair scheduling, one of which may die while it
\* holds the lock.
CrashNext ==
    \/ \E r \in FairRuns : main_start(r)
    \/ \E r \in FairRuns : LockStep(r)
    \/ \E r \in FairRuns : crash(r)

CrashSpec == Init /\ [][CrashNext]_vars /\ \A r \in FairRuns : WF_vars(LockStep(r))


(***************************************************************************)
(* RunSpec: one run of main(), step by step.                                *)
(*                                                                          *)
(*   idle -> acquire -> [ gate_arr -> gate_qbit -> wanted                   *)
(*                        -> (search -> add?)* -> publish -> refresh ]      *)
(*        -> exit -> return -> done                                         *)
(* The bracket is run_for_library; with --name Both it runs for "Movies"    *)
(* and then for "TV".  Every external call returns or raises; nothing in    *)
(* run_for_library catches, so a raise leaves the `with lock:` block        *)
(* ("exit": FileLock.__exit__) and reaches main()'s handler ("return").     *)
(***************************************************************************)
RunFrame == UNCHANGED <<lockVars, concVars, pubVars, funVars>>

Libraries == {"Movies", "TV"}

\* One entry of the call log.
Call(c, l, i, good) == [call |-> c, lib |-> l, req |-> i, ok |-> good]

\* descrLink of the result found for request i of library l.
ResultKey(l, i) == IF l = "Movies" THEN i ELSE MaxRequests + i

\* The filtered, optimized results of a request that found something.
Found(l, i) == <<Rec(ResultKey(l, i), 0, 7)>>

\* if do_qbit and not whatif
DoAdd_ignores_whatif(a) == a.qbit
DoAdd(a) == a.qbit /\ ~a.whatif

\* An exception propagates out of run_for_library and out of `with lock:`.
raise(name) ==
    /\ exc' = name
    /\ rpc' = "exit"

\* main(): args parsed, lock = FileLock(lock_path).
main_enter ==
    /\ rpc = "idle"
    /\ rpc' = "acquire"
    /\ store0' = storeFile
    /\ UNCHANGED <<args, lib, nreq, idx, optimized, all_top, held, exc, rrc, log, storeFile>>
    /\ RunFrame

\* An entry into the body that leaves the lock unmarked.
lock_enter_not_held ==
    /\ rpc = "acquire"
    /\ held' = held
    /\ lib' = IF args.name = "Both" THEN "Movies" ELSE args.name
    /\ rpc' = "gate_arr"
    /\ UNCHANGED <<args, nreq, idx, optimized, all_top, exc, rrc, log, store0, storeFile>>
    /\ RunFrame

\* `with lock:` -> FileLock.__enter__ -> acquire(); no other run competes.
lock_enter ==
    /\ rpc = "acquire"
    /\ held' = TRUE
    /\ lib' = IF args.name = "Both" THEN "Movies" ELSE args.name
    /\ rpc' = "gate_arr"
    /\ UNCHANGED <<args, nreq, idx, optimized, all_top, exc, rrc, log, store0, storeFile>>
    /\ RunFrame

\* init_library: configuration, then retry_until_ok(arr.status).
gate_arr ==
    /\ rpc = "gate_arr"
    /\ \/ /\ log' = Append(log, Call("status", lib, 0, TRUE))
          /\ rpc' = "gate_qbit"
          /\ exc' = exc
       \/ /\ log' = Append(log, Call("status", lib, 0, FALSE))
          /\ raise("status")
    /\ UNCHANGED <<args, lib, nreq, idx, optimized, all_top, held, rrc, store0, storeFile>>
    /\ RunFrame

\* init_library: retry_until_ok(qBit.version).
gate_qbit ==
    /\ rpc = "gate_qbit"
    /\ \/ /\ log' = Append(log, Call("version", lib, 0, TRUE))
          /\ rpc' = "wanted"
          /\ exc' = exc
       \/ /\ log' = Append(log, Call("version", lib, 0, FALSE))
          /\ raise("version")
    /\ UNCHANGED <<args, lib, nreq, idx, optimized, all_top, held, rrc, store0, storeFile>>
    /\ RunFrame

\* arr.wanted_missing, arr.queue and the planning loops (arr.get_video for
\* TV): search_requests is built, or one of the calls raises.
plan_requests ==
    /\ rpc = "wanted"
    /\ \/ \E n \in 0..MaxRequests :
              /\ log' = Append(log, Call("wanted_missing", lib, n, TRUE))
              /\ nreq' = n
              /\ idx' = 1
              /\ all_top' = <<>>
              /\ rpc' = "search"
              /\ exc' = exc
       \/ /\ log' = Append(log, Call("wanted_missing", lib, 0, FALSE))
          /\ raise("wanted_missing")
          /\ UNCHANGED <<nreq, idx, all_top>>
    /\ UNCHANGED <<args, lib, optimized, held, rrc, store0, storeFile>>
    /\ RunFrame

\* `for o in optimized: o[k] = v` and all_top.extend(optimized); next item.
Collect(opt) ==
    /\ all_top' = all_top \o opt
    /\ idx' = idx + 1
    /\ rpc' = "search"

\* One iteration of `for item in search_requests`: qBit.search (search_start,
\* wait_search, search_results), the filter and optimize_results.
search_request ==
    /\ rpc = "search"
    /\ idx <= nreq
    /\ \/ /\ log' = Append(log, Call("search", lib, idx, FALSE))
          /\ raise("search")
          /\ UNCHANGED <<idx, optimized, all_top>>
       \/ /\ exc' = exc
          /\ \/ /\ optimized' = <<>>
                /\ log' = Append(log, Call("search", lib, idx, TRUE))
                /\ Collect(<<>>)
             \/ /\ optimized' = Found(lib, idx)
                /\ log' = Append(Append(log, Call("search", lib, idx, TRUE)),
                                 Call("optimized", lib, idx, TRUE))
                /\ IF DoAdd(args)
                   THEN /\ rpc' = "add"
                        /\ UNCHANGED <<idx, all_top>>
                   ELSE Collect(Found(lib, idx))
    /\ UNCHANGED <<args, lib, nreq, held, rrc, store0, storeFile>>
    /\ RunFrame

\* qBit.add_torrent(optimized[0]): returns, or raise_for_status raises.
add_torrent ==
    /\ rpc = "add"
    /\ \/ /\ log' = Append(log, Call("add_torrent", lib, idx, TRUE))
          /\ Collect(optimized)
          /\ exc' = exc
       \/ /\ log' = Append(log, Call("add_torrent", lib, idx, FALSE))
          /\ raise("add_torrent")
          /\ UNCHANGED <<idx, all_top>>
    /\ UNCHANGED <<args, lib, nreq, optimized, held, rrc, store0, storeFile>>
    /\ RunFrame

\* publish_results(publish_path, retention_days, all_top, whatif) after the
\* loop: with whatif it prints and returns; otherwise it writes the merged
\* list, or os.makedirs / open raises and the file is untouched.
publish_results ==
    /\ rpc = "search"
    /\ idx > nreq
    /\ IF args.whatif
       THEN /\ log' = Append(log, Call("publish", lib, 0, TRUE))
            /\ rpc' = "refresh"
            /\ UNCHANGED <<storeFile, exc>>
       ELSE \/ /\ log' = Append(log, Call("publish", lib, 0, TRUE))
               /\ storeFile' = File(json_dump(
                      Final(LoadExisting(storeFile), all_top, 0, DefaultRetention)))
               /\ rpc' = "refresh"
               /\ exc' = exc
            \/ /\ log' = Append(log, Call("publish", lib, 0, FALSE))
               /\ storeFile' = storeFile
               /\ raise("publish")
    /\ UNCHANGED <<args, lib, nreq, idx, optimized, all_top, held, rrc, store0>>
    /\ RunFrame

\* arr.update_rss(); then run_for_library returns: main() calls it for "TV"
\* when --name is Both and this was "Movies", or leaves the `with` block.
refresh ==
    /\ rpc = "refresh"
    /\ \/ /\ log' = Append(log, Call("update_rss", lib, 0, TRUE))
          /\ exc' = exc
          /\ IF args.name = "Both" /\ lib = "Movies"
             THEN /\ lib' = "TV"
                  /\ rpc' = "gate_arr"
             ELSE /\ lib' = lib
                  /\ rpc' = "exit"
       \/ /\ log' = Append(log, Call("update_rss", lib, 0, FALSE))
          /\ raise("update_rss")
          /\ lib' = lib
    /\ UNCHANGED <<args, nreq, idx, optimized, all_top, held, rrc, store0, storeFile>>
    /\ RunFrame

\* Leaving `with lock:` on a normal or to an exception.  Without the context
\* manager, release() is a statement after the body that a raise skips.
lock_exit_after_body_only ==
    /\ rpc = "exit"
    /\ held' = IF exc = "none" THEN FALSE ELSE held
    /\ rpc' = "return"
    /\ UNCHANGED <<args, lib, nreq, idx, optimized, all_top, exc, rrc, log, store0, storeFile>>
    /\ RunFrame

\* Leaving `with lock:`, normally or by an exception: FileLock.__exit__
\* calls release().
lock_exit ==
    /\ rpc = "exit"
    /\ held' = FALSE
    /\ rpc' = "return"
    /\ UNCHANGED <<args, lib, nreq, idx, optimized, all_top, exc, rrc, log, store0, storeFile>>
    /\ RunFrame

\* main(): `except Exception: return 1`, otherwise `return 0`.
main_return ==
    /\ rpc = "return"
    /\ rrc' = IF exc = "none" THEN 0 ELSE 1
    /\ rpc' = "done"
    /\ UNCHANGED <<args, lib, nreq, idx, optimized, all_top, held, exc, log, store0, storeFile>>
    /\ RunFrame

RunInit ==
    /\ LockIdle
    /\ ConcIdle
    /\ PubIdle
    /\ FunIdle
    /\ storeFile \in {NoFile, File(json_dump(OldStore))}
    /\ args \in [name : {"Movies", "TV", "Both"}, qbit : BOOLEAN, whatif : BOOLEAN]
    /\ rpc = "idle"
    /\ lib = "none"
    /\ nreq = 0
    /\ idx = 0
    /\ optimized = <<>>
    /\ all_top = <<>>
    /\ held = FALSE
    /\ exc = "none"
    /\ rrc = -1
    /\ log = <<>>
    /\ store0 = NoFile

RunNext ==
    \/ main_enter
    \/ lock_enter
    \/ gate_arr
    \/ gate_qbit
    \/ plan_requests
    \/ search_request
    \/ add_torrent
    \/ publish_results
    \/ refresh
    \/ lock_exit
    \/ main_return

RunSpec == RunInit /\ [][RunNext]_vars

(***************************************************************************)
(* PublishSpec: publish_results(publish_path, retention_days, results) on   *)
(* every store a run can find on disk.                                      *)
(*                                                                          *)
(* The existing store is missing or a list written by an earlier publish    *)
(* (one record per descrLink, drawn in key order: the merge treats every    *)
(* order alike); a record's lastAdded is a clock value or, in a file edited *)
(* by hand, missing.  The results were stamped by                           *)
(* optimize_results earlier in the same run: at the clock value of the      *)
(* publish or one tick before it.                                           *)
(***************************************************************************)
PubFrame == UNCHANGED <<lockVars, concVars, args, rpc, lib, nreq, idx, optimized,
                        all_top, held, exc, rrc, log, funVars>>

Keys == 1..NumKeys
Times == 0..MaxTime

SeqsUpTo(S, n) == UNION {[1..m -> S] : m \in 0..n}

DistinctKeys(list) ==
    \A i, j \in 1..Len(list) : list[i].descrLink = list[j].descrLink => i = j

ExistingLists ==
    {e \in SeqsUpTo({Rec(k, t, 6) : k \in Keys, t \in Times \cup {NoTime}}, NumKeys) :
        \A i, j \in 1..Len(e) : i < j => e[i].descrLink < e[j].descrLink}

ResultLists ==
    SeqsUpTo({Rec(k, t, 7) : k \in Keys, t \in {MaxTime - 1, MaxTime}}, MaxLen)

\* Files that do not hold a list of records: empty, cut off after the
\* first record, an object, undecodable bytes, and lists with an element
\* that is not an object.
DamagedFiles ==
    {File(<<>>),
     File(<<TokOpen, TokItem(Rec(1, MaxTime, 6))>>),
     File(<<TokObject>>),
     File(<<TokBadByte>>),
     File(json_dump(<<Scalar>>)),
     File(json_dump(<<Rec(1, MaxTime, 6), Scalar>>))}

\* publish_results with whatif = False: load, retain, overlay, save.  The
\* keep loop calls item.get on every element of the loaded list: an element
\* that is not an object raises AttributeError before anything is written.
publish_call ==
    /\ ppc = "call"
    /\ LET loaded == LoadExisting(storeFile)
       IN IF \A i \in 1..Len(loaded) : IsDict(loaded[i])
          THEN /\ storeFile' = File(json_dump(Final(loaded, results, now, days)))
               /\ ppc' = "done"
          ELSE /\ storeFile' = storeFile
               /\ ppc' = "raised"
    /\ UNCHANGED <<results, days, now, store0, results2>>
    /\ PubFrame

PubInit ==
    /\ LockIdle
    /\ ConcIdle
    /\ FunIdle
    /\ args = [name |-> "Movies", qbit |-> FALSE, whatif |-> FALSE]
    /\ rpc = "idle"
    /\ lib = "none"
    /\ nreq = 0
    /\ idx = 0
    /\ optimized = <<>>
    /\ all_top = <<>>
    /\ held = FALSE
    /\ exc = "none"
    /\ rrc = -1
    /\ log = <<>>
    /\ storeFile \in {NoFile} \cup {File(json_dump(e)) : e \in ExistingLists}
                       \cup DamagedFiles
    /\ store0 = storeFile
    /\ results \in ResultLists
    /\ days \in 0..MaxRetention
    /\ now = MaxTime
    /\ ppc = "call"
    /\ results2 = <<>>

PubNext == publish_call

PublishSpec == PubInit /\ [][PubNext]_vars

(***************************************************************************)
(* RepublishSpec: two publishes at the same instant, publish_results(R1)    *)
(* and then publish_results(R2), with the same retention window.            *)
(*                                                                          *)
(* The existing store holds, per key, no record, a record stamped at 0, a   *)
(* record stamped at the instant of the publish, or a record without        *)
(* lastAdded.  R1 and R2 are result lists of at most MaxBatch records.      *)
(***************************************************************************)
CoarseLists ==
    {e \in ExistingLists :
        \A i \in 1..Len(e) : e[i].lastAdded \in {0, MaxTime, NoTime}}

BatchLists ==
    SeqsUpTo({Rec(k, t, 7) : k \in Keys, t \in {MaxTime - 1, MaxTime}}, MaxBatch)

\* publish_results(publish_path, retention_days, R1).
publish_first ==
    /\ ppc = "call"
    /\ storeFile' = File(json_dump(Final(LoadExisting(storeFile), results, now, days)))
    /\ ppc' = "once"
    /\ UNCHANGED <<results, days, now, store0, results2>>
    /\ PubFrame

\* A second publish that writes its results in place of the store.
publish_second_overwrite ==
    /\ ppc = "once"
    /\ \E r2 \in BatchLists :
           /\ results2' = r2
           /\ storeFile' = File(json_dump(r2))
    /\ ppc' = "twice"
    /\ UNCHANGED <<results, days, now, store0>>
    /\ PubFrame

\* publish_results(publish_path, retention_days, R2) on the store the first
\* publish wrote, the clock not having moved.
publish_second ==
    /\ ppc = "once"
    /\ \E r2 \in BatchLists :
           /\ results2' = r2
           /\ storeFile' =
                  File(json_dump(Final(LoadExisting(storeFile), r2, now, days)))
    /\ ppc' = "twice"
    /\ UNCHANGED <<results, days, now, store0>>
    /\ PubFrame

RepubInit ==
    /\ LockIdle
    /\ ConcIdle
    /\ FunIdle
    /\ args = [name |-> "Movies", qbit |-> FALSE, whatif |-> FALSE]
    /\ rpc = "idle"
    /\ lib = "none"
    /\ nreq = 0
    /\ idx = 0
    /\ optimized = <<>>
    /\ all_top = <<>>
    /\ held = FALSE
    /\ exc = "none"
    /\ rrc = -1
    /\ log = <<>>
    /\ storeFile \in {NoFile} \cup {File(json_dump(e)) : e \in CoarseLists}
    /\ store0 = storeFile
    /\ results \in BatchLists
    /\ results2 = <<>>
    /\ days \in 0..MaxRetention
    /\ now = MaxTime
    /\ ppc = "call"

RepubNext ==
    \/ publish_first
    \/ publish_second

RepublishSpec == RepubInit /\ [][RepubNext]_vars

(***************************************************************************)
(* PlanSpec: the Request Planner of run_for_library, from the wanted        *)
(* records and the queue to search_requests.                                *)
(*                                                                          *)
(* Movies: NumMovies movies.  TV: series 1 with two seasons of MaxEpisodes  *)
(* episodes and series 2 with one season of one episode (known total 1).    *)
(* Every item is not wanted, wanted, or wanted and in the queue with status *)
(* "downloading" or "completed" (the episode of series 2 is never queued).  *)
(* Strings are built as the f-strings build them.                           *)
(***************************************************************************)
PlanFrame ==
    UNCHANGED <<lockVars, concVars, storeFile, runVars, pubVars, reqVars, waitVars,
                auxVars>>

\* Python None where a pattern is expected.
None == "None"
\* The ignore pattern of a season request, r"E\d{2,3}\D".
IgnoreEpisodes == "E\\d{2,3}\\D"

\* f"{n:02d}"
Pad2(n) == IF n < 10 THEN "0" \o ToString(n) ELSE ToString(n)
SeasonLabel(n) == "S" \o Pad2(n)
EpisodeLabel(n, e) == SeasonLabel(n) \o "E" \o Pad2(e)
\* f"({season_label}|Season 0?{season_num})"
SeasonMatch(n) == "(" \o SeasonLabel(n) \o "|Season 0?" \o ToString(n) \o ")"

Seasons == 1..2
NumEpisodes == 2 * MaxEpisodes + 1

\* A wanted record of the movie service.
Movie(i) ==
    [id |-> i,
     title |-> IF i = 1 THEN "Alpha" ELSE "Title" \o ToString(i),
     year |-> 2019 + i,
     runtime |-> 100]

\* A wanted record of the series service; ids 1..2*MaxEpisodes are series 1,
\* season by season, the last id is the episode of series 2.
Episode(i) ==
    IF i <= 2 * MaxEpisodes
    THEN [id |-> i, seriesId |-> 1,
          seasonNumber |-> ((i - 1) \div MaxEpisodes) + 1,
          episodeNumber |-> ((i - 1) % MaxEpisodes) + 1,
          runtime |-> 20]
    ELSE [id |-> i, seriesId |-> 2, seasonNumber |-> 1, episodeNumber |-> 1,
          runtime |-> 20]

\* arr.get_video(series_id): the fields the planner reads.
Series(sid, tot) ==
    [id |-> sid, sortTitle |-> "show" \o ToString(sid), tvdbId |-> 100 + sid,
     total |-> [n \in Seasons |-> IF <<sid, n>> \in DOMAIN tot THEN tot[<<sid, n>>] ELSE 0]]

\* A queue record: id is its movieId (Movies) or episodeId (TV).
QueueRec(i, st) == [id |-> i, status |-> st]

\* The ids of the queue records whose status is not "completed".
NonCompleted(q) == {q[i].id : i \in {j \in 1..Len(q) : q[j].status # "completed"}}

MovieRequest(rec) ==
    [string |-> rec.title \o " " \o ToString(rec.year),
     match |-> ToString(rec.year),
     ignore |-> None,
     request |-> rec,
     meta |-> [type |-> "Movies", season |-> -1, ep |-> -1]]

\* A Movies branch that skips every wanted movie found in the queue.
PlanMovies_skip_all_queued(w, q) ==
    LET kept == SelectSeq(w, LAMBDA rec : \A j \in 1..Len(q) : q[j].id # rec.id)
    IN [i \in 1..Len(kept) |-> MovieRequest(kept[i])]

\* The Movies branch: one request per wanted movie that is not in the queue
\* with a status other than "completed".
PlanMovies(w, q) ==
    LET kept == SelectSeq(w, LAMBDA rec : ~(q # <<>> /\ rec.id \in NonCompleted(q)))
    IN [i \in 1..Len(kept) |-> MovieRequest(kept[i])]

SeasonRequest(series, n, eps) ==
    [string |-> series.sortTitle \o " " \o SeasonLabel(n),
     match |-> SeasonMatch(n),
     ignore |-> IgnoreEpisodes,
     request |-> eps,
     meta |-> [type |-> "TV", tvdbid |-> series.tvdbId, season |-> n, ep |-> 0]]

EpisodeRequest(series, ep) ==
    [string |-> series.sortTitle \o " " \o EpisodeLabel(ep.seasonNumber, ep.episodeNumber),
     match |-> EpisodeLabel(ep.seasonNumber, ep.episodeNumber),
     ignore |-> None,
     request |-> <<ep>>,
     meta |-> [type |-> "TV", tvdbid |-> series.tvdbId,
               season |-> ep.seasonNumber, ep |-> ep.episodeNumber]]

\* The keys of a dict filled with setdefault, in insertion order.
RECURSIVE FirstSeen(_, _)
FirstSeen(keys, seen) ==
    IF keys = <<>> THEN <<>>
    ELSE IF Head(keys) \in seen THEN FirstSeen(Tail(keys), seen)
    ELSE <<Head(keys)>> \o FirstSeen(Tail(keys), seen \cup {Head(keys)})

\* A season test that compares the known total with the wanted episodes of
\* the season, the queued ones included.
PlanSeason_counts_queued(series, n, eps) ==
    IF series.total[n] # 0
       /\ series.total[n] =
              Len(SelectSeq(wanted, LAMBDA ep : ep.seriesId = series.id
                                                 /\ ep.seasonNumber = n))
    THEN <<SeasonRequest(series, n, eps)>>
    ELSE [i \in 1..Len(eps) |-> EpisodeRequest(series, eps[i])]

\* The requests of one season: one for the whole season when the known
\* total is not 0 and equals the number of missing episodes, else one per
\* missing episode.
PlanSeason(series, n, eps) ==
    IF series.total[n] # 0 /\ series.total[n] = Len(eps)
    THEN <<SeasonRequest(series, n, eps)>>
    ELSE [i \in 1..Len(eps) |-> EpisodeRequest(series, eps[i])]

RECURSIVE PlanSeasons(_, _, _)
PlanSeasons(series, order, missing) ==
    IF order = <<>> THEN <<>>
    ELSE PlanSeason(series, Head(order),
                    SelectSeq(missing, LAMBDA ep : ep.seasonNumber = Head(order)))
         \o PlanSeasons(series, Tail(order), missing)

\* The requests of one series: its wanted episodes that are not in the queue
\* with a status other than "completed", grouped by season.
PlanSeries(sid, episodes, q, tot) ==
    LET missing == SelectSeq(episodes, LAMBDA ep : ep.id \notin NonCompleted(q))
        order == FirstSeen([i \in 1..Len(missing) |-> missing[i].seasonNumber], {})
    IN PlanSeasons(Series(sid, tot), order, missing)

RECURSIVE PlanAllSeries(_, _, _, _)
PlanAllSeries(order, w, q, tot) ==
    IF order = <<>> THEN <<>>
    ELSE PlanSeries(Head(order), SelectSeq(w, LAMBDA ep : ep.seriesId = Head(order)),
                    q, tot)
         \o PlanAllSeries(Tail(order), w, q, tot)

\* The TV branch.
PlanTV(w, q, tot) ==
    PlanAllSeries(FirstSeen([i \in 1..Len(w) |-> w[i].seriesId], {}), w, q, tot)

\* search_requests after the planning block of run_for_library.
plan_call ==
    /\ plpc = "call"
    /\ search_requests' = IF kind = "Movies" THEN PlanMovies(wanted, queued)
                          ELSE PlanTV(wanted, queued, totals)
    /\ plpc' = "done"
    /\ UNCHANGED <<kind, wanted, queued, totals>>
    /\ PlanFrame

ItemStates == {"unwanted", "wanted", "downloading", "completed"}

\* The wanted records and the queue of the items in the given states.
WantedOf(items, st) ==
    SelectSeq(items, LAMBDA rec : st[rec.id] # "unwanted")
QueueOf(n, st) ==
    LET ids == SelectSeq([i \in 1..n |-> i],
                         LAMBDA i : st[i] \in {"downloading", "completed"})
    IN [j \in 1..Len(ids) |-> QueueRec(ids[j], st[ids[j]])]

PlanInit ==
    /\ LockIdle
    /\ ConcIdle
    /\ RunIdle
    /\ PubIdle
    /\ ReqIdle
    /\ WaitIdle
    /\ AuxIdle
    /\ storeFile = NoFile
    /\ kind \in {"Movies", "TV"}
    /\ IF kind = "Movies"
       THEN /\ \E st \in [1..NumMovies -> ItemStates] :
                   /\ wanted = WantedOf([i \in 1..NumMovies |-> Movie(i)], st)
                   /\ queued = QueueOf(NumMovies, st)
            /\ totals = <<>>
       ELSE /\ \E st \in {f \in [1..NumEpisodes -> ItemStates] :
                             f[NumEpisodes] \in {"unwanted", "wanted"}} :
                   /\ wanted = WantedOf([i \in 1..NumEpisodes |-> Episode(i)], st)
                   /\ queued = QueueOf(NumEpisodes, st)
            /\ \E t1, t2 \in 0..MaxEpisodes :
                   totals = (<<1, 1>> :> t1) @@ (<<1, 2>> :> t2) @@ (<<2, 1>> :> 1)
    /\ search_requests = <<>>
    /\ plpc = "call"

PlanNext == plan_call

PlanSpec == PlanInit /\ [][PlanNext]_vars

(***************************************************************************)
(* RequestSpec: one iteration of the request loop of run_for_library:       *)
(* filter the candidates the search returned, optimize_results, add the top *)
(* result to the download client, extend all_top.                           *)
(*                                                                          *)
(* A file name is the sequence of its dot-separated parts; a pattern is     *)
(* found in a name when one of the parts is the pattern (str `in`) or       *)
(* contains what the regular expression describes (re.search).  fileSize is *)
(* -1 or a size in MiB; seed counts are integers, so n >= 0.1 * max is      *)
(* 10 * n >= max.                                                           *)
(***************************************************************************)
ReqFrame ==
    UNCHANGED <<lockVars, concVars, storeFile, pubVars, planVars, waitVars, auxVars>>

EpisodeTokens(n) == {EpisodeLabel(n, e) : e \in 1..MaxEpisodes}
AllEpisodeTokens == UNION {EpisodeTokens(n) : n \in Seasons}

\* match_pat in name_str
str_in(pat, name) == \E i \in 1..Len(name) : name[i] = pat

\* re.search(pat, name_str) for the patterns the planner builds: the
\* episode marker followed by a non-digit, the season alternative (its label
\* also starts every episode label of the season), or a literal.
re_search(pat, name) ==
    IF pat = IgnoreEpisodes
    THEN \E i \in 1..(Len(name) - 1) : name[i] \in AllEpisodeTokens
    ELSE IF \E n \in Seasons : pat = SeasonMatch(n)
    THEN \E n \in Seasons :
             /\ pat = SeasonMatch(n)
             /\ \E i \in 1..Len(name) :
                    name[i] \in {SeasonLabel(n), "Season " \o ToString(n)}
                                    \cup EpisodeTokens(n)
    ELSE str_in(pat, name)

\* A match test by literal containment alone.
Matched_literal_only(item, r) ==
    \/ item.match = None
    \/ /\ item.match # ""
       /\ str_in(item.match, r.fileName)

\* The three tests of the filter loop.
Matched(item, r) ==
    \/ item.match = None
    \/ /\ item.match # ""
       /\ (str_in(item.match, r.fileName) \/ re_search(item.match, r.fileName))
Ignored(item, r) ==
    item.ignore # None /\ item.ignore # "" /\ re_search(item.ignore, r.fileName)
Errored(r) == r.fileSize = -1

\* A filter that forgets the fileSize test.
Filter_keeps_errored(item, cands) ==
    SelectSeq(cands, LAMBDA r : Matched(item, r) /\ ~Ignored(item, r))

\* filtered: matched and (not ignored) and (not errored).
Filter(item, cands) ==
    SelectSeq(cands, LAMBDA r : Matched(item, r) /\ ~Ignored(item, r) /\ ~Errored(r))

\* runtime of optimize_results: the request's runtime (Movies) or the sum of
\* its episodes' runtimes (TV), a missing or zero runtime counting as the
\* default of the library.
RuntimeDefault(type) == IF type = "Movies" THEN 100 ELSE 20
RECURSIVE SumRuntime(_, _)
SumRuntime(eps, default) ==
    IF eps = <<>> THEN 0
    ELSE (IF Head(eps).runtime = 0 THEN default ELSE Head(eps).runtime)
         + SumRuntime(Tail(eps), default)
Runtime(type, request_obj) ==
    IF type = "Movies"
    THEN (IF request_obj.runtime = 0 THEN RuntimeDefault(type) ELSE request_obj.runtime)
    ELSE SumRuntime(request_obj, RuntimeDefault(type))

\* max((nbSeeders ...), default=0) or 1
RECURSIVE MaxOf(_)
MaxOf(list) ==
    IF list = <<>> THEN 0
    ELSE LET m == MaxOf(Tail(list))
         IN IF Len(list) = 1 \/ Head(list) > m THEN Head(list) ELSE m
max_seeders(cands) ==
    LET m == MaxOf([i \in 1..Len(cands) |-> cands[i].nbSeeders])
    IN IF m = 0 THEN 1 ELSE m

\* float(fileSize or 1) / 1024**2, in whole MiB.
MB_per_min(r) == IF r.fileSize <= 0 THEN 0 ELSE r.fileSize

Weights(type) ==
    IF type = "Movies"
    THEN [seeds_10 |-> 7, sizeBest |-> 5, favorite |-> 3, seeds_50 |-> 2, quality |-> 1]
    ELSE [seeds_10 |-> 7, sizeBest |-> 5, seeds_50 |-> 3, quality |-> 2, favorite |-> 1]

\* Categories that use the TV thresholds for every library.
Category_tv_thresholds(type, mb, runtime) ==
    IF mb < 25 * runtime THEN (IF type = "Movies" THEN "SD" ELSE "WEB-DL")
    ELSE IF mb < 40 * runtime THEN "SD"
    ELSE IF mb < 60 * runtime THEN "HD" ELSE "UHD"

\* Categories whose last threshold is inclusive: 60 * runtime is still HD.
Category_hd_includes_60(type, mb, runtime) ==
    IF mb = 60 * runtime THEN "HD"
    ELSE IF type = "Movies"
    THEN (IF mb < 25 * runtime THEN "SD"
          ELSE IF mb < 60 * runtime THEN "HD" ELSE "UHD")
    ELSE (IF mb < 25 * runtime THEN "WEB-DL"
          ELSE IF mb < 40 * runtime THEN "SD"
          ELSE IF mb < 60 * runtime THEN "HD" ELSE "UHD")

Category(type, mb, runtime) ==
    IF type = "Movies"
    THEN (IF mb < 25 * runtime THEN "SD"
          ELSE IF mb < 60 * runtime THEN "HD" ELSE "UHD")
    ELSE (IF mb < 25 * runtime THEN "WEB-DL"
          ELSE IF mb < 40 * runtime THEN "SD"
          ELSE IF mb < 60 * runtime THEN "HD" ELSE "UHD")

\* Flags whose seeds_50 comparison points the wrong way.
Flags_seeds_50_inverted(r, cands, type, runtime) ==
    [seeds_10 |-> 10 * r.nbSeeders >= max_seeders(cands),
     seeds_50 |-> 2 * r.nbSeeders <= max_seeders(cands),
     quality |-> str_in("1080p", r.fileName) \/ str_in("2160p", r.fileName),
     favorite |-> r.siteUrl = "https://torrents-csv.com",
     sizeMin |-> 10 * runtime <= MB_per_min(r) /\ MB_per_min(r) <= 60 * runtime,
     sizeBest |-> 25 * runtime <= MB_per_min(r) /\ MB_per_min(r) <= 40 * runtime]

\* Flags whose size window reaches up to 61 * runtime.
Flags_wide_size_window(r, cands, type, runtime) ==
    [seeds_10 |-> 10 * r.nbSeeders >= max_seeders(cands),
     seeds_50 |-> 2 * r.nbSeeders >= max_seeders(cands),
     quality |-> str_in("1080p", r.fileName) \/ str_in("2160p", r.fileName),
     favorite |-> r.siteUrl = "https://torrents-csv.com",
     sizeMin |-> 10 * runtime <= MB_per_min(r) /\ MB_per_min(r) <= 61 * runtime,
     sizeBest |-> 25 * runtime <= MB_per_min(r) /\ MB_per_min(r) <= 40 * runtime]

\* The flags of candidate r among cands.
Flags(r, cands, type, runtime) ==
    [seeds_10 |-> 10 * r.nbSeeders >= max_seeders(cands),
     seeds_50 |-> 2 * r.nbSeeders >= max_seeders(cands),
     quality |-> str_in("1080p", r.fileName) \/ str_in("2160p", r.fileName),
     favorite |-> r.siteUrl = "https://torrents-csv.com",
     sizeMin |-> 10 * runtime <= MB_per_min(r) /\ MB_per_min(r) <= 60 * runtime,
     sizeBest |-> 25 * runtime <= MB_per_min(r) /\ MB_per_min(r) <= 40 * runtime]

B2N(b) == IF b THEN 1 ELSE 0

\* A score that also counts the sizeMin flag, with the weight of sizeBest.
ScoreOf_counts_sizeMin(flags, type) ==
    LET w == Weights(type)
    IN w.seeds_10 * B2N(flags.seeds_10) + w.sizeBest * B2N(flags.sizeBest)
       + w.favorite * B2N(flags.favorite) + w.seeds_50 * B2N(flags.seeds_50)
       + w.quality * B2N(flags.quality) + w.sizeBest * B2N(flags.sizeMin)

ScoreOf(flags, type) ==
    LET w == Weights(type)
    IN w.seeds_10 * B2N(flags.seeds_10) + w.sizeBest * B2N(flags.sizeBest)
       + w.favorite * B2N(flags.favorite) + w.seeds_50 * B2N(flags.seeds_50)
       + w.quality * B2N(flags.quality)

\* The candidate after the scoring loop: the fields it keeps, and its flags.
Scored(r, cands, type, runtime, clock) ==
    [fileName |-> r.fileName, fileSize |-> r.fileSize, nbSeeders |-> r.nbSeeders,
     siteUrl |-> r.siteUrl, pubDate |-> r.pubDate,
     lastAdded |-> clock, fileSizeMB |-> MB_per_min(r),
     category |-> Category(type, MB_per_min(r), runtime),
     score |-> ScoreOf(Flags(r, cands, type, runtime), type),
     flags |-> Flags(r, cands, type, runtime)]

\* The sort key is (score, pubDate or ""): pubDate is the number the search
\* reports (seconds since the epoch), and a missing, empty or zero pubDate
\* (0 here) becomes "".  Comparing two keys of equal score compares their
\* second parts, which raises TypeError when one is a number and the other
\* "".  A sort cannot order the candidates of one score without comparing
\* a numbered one of them with an unnumbered one, so it raises exactly when
\* the list holds such a pair.
MixedKeys(a, b) == a.score = b.score /\ a.pubDate # 0 /\ b.pubDate = 0
SortRaises(list) ==
    \E i, j \in 1..Len(list) : MixedKeys(list[i], list[j])

\* (score, pubDate or "") of a is at least that of b, for keys that compare.
KeyAtLeast(a, b) ==
    \/ a.score > b.score
    \/ a.score = b.score /\ a.pubDate >= b.pubDate

\* list.sort(key=..., reverse=True): descending and stable.
RECURSIVE InsertByScore(_, _)
InsertByScore(sorted, x) ==
    IF sorted = <<>> THEN <<x>>
    ELSE IF KeyAtLeast(Head(sorted), x)
    THEN <<Head(sorted)>> \o InsertByScore(Tail(sorted), x)
    ELSE <<x>> \o sorted
RECURSIVE SortByScore(_)
SortByScore(list) ==
    IF list = <<>> THEN <<>>
    ELSE InsertByScore(SortByScore(SubSeq(list, 1, Len(list) - 1)), list[Len(list)])

\* A selection that tests the score alone.
Selected_score_only(x) == x.score > 5

\* The final selection of optimize_results.
Selected(x) == x.score > 5 /\ x.flags.sizeMin

\* The calculation fields are popped from what is returned.
Strip(x) ==
    [fileName |-> x.fileName, fileSize |-> x.fileSize, nbSeeders |-> x.nbSeeders,
     siteUrl |-> x.siteUrl, pubDate |-> x.pubDate,
     lastAdded |-> x.lastAdded, fileSizeMB |-> x.fileSizeMB,
     category |-> x.category, score |-> x.score]

ScoredAll(cands, type, request_obj, clock) ==
    [i \in 1..Len(cands) |->
        Scored(cands[i], cands, type, Runtime(type, request_obj), clock)]

\* The sort of optimize_results raises for these candidates.
optimize_raises(cands, type, request_obj, clock) ==
    SortRaises(SelectSeq(ScoredAll(cands, type, request_obj, clock), Selected))

optimize_results(cands, type, request_obj, clock) ==
    LET kept == SortByScore(SelectSeq(ScoredAll(cands, type, request_obj, clock),
                                      Selected))
    IN [i \in 1..Len(kept) |-> Strip(kept[i])]

\* for k, v in meta.items(): o[k] = v
WithMeta(list, meta) == [i \in 1..Len(list) |-> meta @@ list[i]]

filter_results ==
    /\ rpc = "filter"
    /\ filtered' = Filter(request, candidates)
    /\ rpc' = "optimize"
    /\ UNCHANGED <<request, candidates, added>>
    /\ UNCHANGED <<args, lib, nreq, idx, optimized, all_top, held, exc, rrc, log, store0>>
    /\ ReqFrame

\* optimized = optimize_results(...); its TypeError leaves the loop.
optimize_call ==
    /\ rpc = "optimize"
    /\ IF optimize_raises(filtered, request.meta.type, request.request, now)
       THEN /\ rpc' = "raised"
            /\ exc' = "TypeError"
            /\ optimized' = optimized
       ELSE /\ optimized' = optimize_results(filtered, request.meta.type,
                                             request.request, now)
            /\ rpc' = "trigger"
            /\ exc' = exc
    /\ UNCHANGED <<request, candidates, filtered, added>>
    /\ UNCHANGED <<args, lib, nreq, idx, all_top, held, rrc, log, store0>>
    /\ ReqFrame

\* `if optimized:`: add_torrent(top) when do_qbit and not whatif, which
\* returns or raises; then the metadata and all_top.extend(optimized).
trigger_and_collect ==
    /\ rpc = "trigger"
    /\ IF optimized = <<>>
       THEN /\ rpc' = "end"
            /\ UNCHANGED <<added, all_top, exc>>
       ELSE IF DoAdd(args)
       THEN /\ added' = Append(added, optimized[1])
            /\ \/ /\ all_top' = all_top \o WithMeta(optimized, request.meta)
                  /\ rpc' = "end"
                  /\ exc' = exc
               \/ /\ all_top' = all_top
                  /\ rpc' = "raised"
                  /\ exc' = "add_torrent"
       ELSE /\ all_top' = all_top \o WithMeta(optimized, request.meta)
            /\ rpc' = "end"
            /\ UNCHANGED <<added, exc>>
    /\ UNCHANGED <<request, candidates, filtered>>
    /\ UNCHANGED <<args, lib, nreq, idx, optimized, held, rrc, log, store0>>
    /\ ReqFrame

\* The requests of the iteration: the planner's request for movie 1, the
\* same without match pattern, and the planner's season and episode
\* requests for season 1 of series 1.
SampleSeries == Series(1, (<<1, 1>> :> MaxEpisodes))
SampleRequests ==
    {MovieRequest(Movie(1)),
     [MovieRequest(Movie(1)) EXCEPT !.match = None],
     SeasonRequest(SampleSeries, 1, [e \in 1..MaxEpisodes |-> Episode(e)]),
     EpisodeRequest(SampleSeries, Episode(1))}

\* What a search may return for the request: a first candidate with one of
\* two file names, a size of -1 or around the size window of the request's
\* runtime, one of three seed counts and one of two sites, followed by up
\* to MaxCands - 1 candidates of the first site whose size is -1 or inside
\* the best window.
FileNames(type) ==
    IF type = "Movies"
    THEN {<<"Alpha", "2020", "1080p">>, <<"Alpha", "2019">>}
    ELSE {<<"show1", "S01E01", "1080p">>, <<"show1", "S01">>}
SizeFactors == {9, 10, 30, 60, 61}
SeedCounts == {0, 5, 50}
Cand(name, size, seeds) ==
    [fileName |-> name, fileSize |-> size, nbSeeders |-> seeds,
     siteUrl |-> "https://example.org", pubDate |-> 0]
SiteUrls == {"https://example.org", "https://torrents-csv.com"}
CandidatesFor(item) ==
    {[Cand(name, size, seeds) EXCEPT !.siteUrl = site] :
        name \in FileNames(item.meta.type),
        size \in {-1} \cup {m * Runtime(item.meta.type, item.request) : m \in SizeFactors},
        seeds \in SeedCounts,
        site \in SiteUrls}
OtherCandidatesFor(item) ==
    {c \in CandidatesFor(item) :
        /\ c.fileSize \in {-1, 30 * Runtime(item.meta.type, item.request)}
        /\ c.siteUrl = "https://example.org"}
SearchResults(item) ==
    {<<>>} \cup {<<c>> \o rest : c \in CandidatesFor(item),
                                 rest \in SeqsUpTo(OtherCandidatesFor(item), MaxCands - 1)}

ReqInit ==
    /\ LockIdle
    /\ ConcIdle
    /\ PubIdle
    /\ PlanIdle
    /\ WaitIdle
    /\ AuxIdle
    /\ storeFile = NoFile
    /\ request \in SampleRequests
    /\ candidates \in SearchResults(request)
    /\ filtered = <<>>
    /\ added = <<>>
    /\ args = [name |-> request.meta.type, qbit |-> TRUE, whatif |-> FALSE]
    /\ rpc = "filter"
    /\ lib = request.meta.type
    /\ nreq = 1
    /\ idx = 1
    /\ optimized = <<>>
    /\ all_top = <<>>
    /\ held = TRUE
    /\ exc = "none"
    /\ rrc = -1
    /\ log = <<>>
    /\ store0 = NoFile

ReqNext ==
    \/ filter_results
    \/ optimize_call
    \/ trigger_and_collect

RequestSpec == ReqInit /\ [][ReqNext]_vars

(***************************************************************************)
(* OptimizeSpec: the same iteration for searches whose candidates all pass  *)
(* the filter and differ in size, around the thresholds of the category     *)
(* tables, and in pubDate, which may be missing (0).                        *)
(***************************************************************************)
PubDates == 0..MaxPubDate
CategoryBounds == {25, 40, 60}
ThresholdSizes(runtime) ==
    {t * runtime - d : t \in CategoryBounds, d \in {0, 1}} \cup {60 * runtime + 1}
DatedCandidatesFor(item) ==
    {[Cand(name, size, 50) EXCEPT !.pubDate = d] :
        name \in {<<"Alpha", "2020", "1080p">>, <<"show1", "S01E01", "1080p">>}
                     \cap FileNames(item.meta.type),
        size \in ThresholdSizes(Runtime(item.meta.type, item.request)),
        d \in PubDates}

OptInit ==
    /\ LockIdle
    /\ ConcIdle
    /\ PubIdle
    /\ PlanIdle
    /\ WaitIdle
    /\ AuxIdle
    /\ storeFile = NoFile
    /\ request \in {MovieRequest(Movie(1)), EpisodeRequest(SampleSeries, Episode(1))}
    /\ candidates \in SeqsUpTo(DatedCandidatesFor(request), MaxCands) \ {<<>>}
    /\ filtered = <<>>
    /\ added = <<>>
    /\ args = [name |-> request.meta.type, qbit |-> TRUE, whatif |-> FALSE]
    /\ rpc = "filter"
    /\ lib = request.meta.type
    /\ nreq = 1
    /\ idx = 1
    /\ optimized = <<>>
    /\ all_top = <<>>
    /\ held = TRUE
    /\ exc = "none"
    /\ rrc = -1
    /\ log = <<>>
    /\ store0 = NoFile

OptimizeSpec == OptInit /\ [][ReqNext]_vars

(***************************************************************************)
(* WaitSpec: QBitClient.search and the wait_search call it makes.  The     *)
(* answers of the search API (search_start, search_status, search_stop,    *)
(* search_results) are inputs: each call draws one.                        *)
(***************************************************************************)
WaitFrame ==
    UNCHANGED <<lockVars, concVars, storeFile, runVars, pubVars, planVars, reqVars,
                auxVars>>

min(a, b) == IF a <= b THEN a ELSE b
max(a, b) == IF a >= b THEN a ELSE b

\* status.get("total", 0)
Total(st) == IF "total" \in DOMAIN st THEN st.total ELSE 0
\* status.get("status") == "Stopped"
IsStopped(st) == "status" \in DOMAIN st /\ st.status = "Stopped"
\* What search_status can answer: a job status with or without a total.
StatusAnswers ==
    [status : {"Running", "Stopped"}, total : 0..MaxTotal]
        \cup [status : {"Running", "Stopped"}]
StatusCall(st) ==
    [op |-> "status", at |-> elapsed, st |-> st]
StopCall(ok) ==
    [op |-> "stop", at |-> elapsed, st |-> IF ok THEN "ok" ELSE "raised"]

\* elapsed >= timeout
StopDue_strict(e, t) == e > t
StopDue(e, t) == e >= t
\* sleep_for = min(wait, max(0, timeout - elapsed))
sleep_for(w, t, e) == min(w, max(0, t - e))

JobIds == 1..NumJobs
\* What search_results can return: list(payload.get("results", [])).
ResultPayloads == {<<>>, <<"result1">>, <<"result1", "result2">>}

\* job_id = self.search_start(query): the server names the job, or the
\* request fails and search raises.
search_start ==
    /\ spc = "start"
    /\ \/ /\ spc' = "raised"
          /\ UNCHANGED <<job_id, wpc>>
       \/ \E id \in JobIds :
             /\ job_id' = id
             /\ spc' = "wait"
             /\ wpc' = "call"
    /\ UNCHANGED <<wargs, timeout, elapsed, status, calls, ret, fetched, sret>>
    /\ WaitFrame

\* if whatif: timeout = 5; elapsed = 0; status = None
wait_search_enter ==
    /\ wpc = "call"
    /\ timeout' = IF wargs.whatif THEN WhatifTimeout ELSE wargs.timeout
    /\ elapsed' = 0
    /\ status' = <<>>
    /\ wpc' = "poll"
    /\ UNCHANGED <<wargs, calls, ret>>
    /\ UNCHANGED <<job_id, fetched, sret, spc>>
    /\ WaitFrame

\* Top of the loop: status = self.search_status(job_id); a Stopped job
\* returns its total.  A failing request raises out of wait_search.
poll_status ==
    /\ wpc = "poll"
    /\ \/ /\ calls' = Append(calls, StatusCall("raised"))
          /\ wpc' = "raised"
          /\ UNCHANGED <<status, ret>>
       \/ \E a \in StatusAnswers :
             /\ status' = a
             /\ calls' = Append(calls, StatusCall(a.status))
             /\ IF IsStopped(a)
                THEN /\ ret' = Total(a)
                     /\ wpc' = "done"
                ELSE /\ wpc' = "check"
                     /\ UNCHANGED ret
    /\ UNCHANGED <<wargs, timeout, elapsed>>
    /\ UNCHANGED <<job_id, fetched, sret, spc>>
    /\ WaitFrame

\* Rest of the loop body: the stop at the timeout (its exception is
\* suppressed), then the sleep or the break.
check_timeout ==
    /\ wpc = "check"
    /\ \E ok \in BOOLEAN :
          calls' = IF StopDue(elapsed, timeout)
                   THEN Append(calls, StopCall(ok))
                   ELSE calls
    /\ LET s == sleep_for(wargs.wait, timeout, elapsed)
       IN IF s <= 0
          THEN /\ wpc' = "final"
               /\ UNCHANGED elapsed
          ELSE /\ elapsed' = elapsed + s
               /\ wpc' = "poll"
    /\ UNCHANGED <<wargs, timeout, status, ret>>
    /\ UNCHANGED <<job_id, fetched, sret, spc>>
    /\ WaitFrame

\* After the loop: status = self.search_status(job_id); return its total.
final_status ==
    /\ wpc = "final"
    /\ \/ /\ calls' = Append(calls, StatusCall("raised"))
          /\ wpc' = "raised"
          /\ UNCHANGED <<status, ret>>
       \/ \E a \in StatusAnswers :
             /\ status' = a
             /\ calls' = Append(calls, StatusCall(a.status))
             /\ ret' = Total(a)
             /\ wpc' = "done"
    /\ UNCHANGED <<wargs, timeout, elapsed>>
    /\ UNCHANGED <<job_id, fetched, sret, spc>>
    /\ WaitFrame

\* if not found
NotFound_never(found) == FALSE
NotFound(found) == found = 0

\* found = self.wait_search(...); if not found: return []
\* return self.search_results(job_id, limit=limit)
search_return ==
    /\ spc = "wait"
    /\ \/ /\ wpc = "raised"
          /\ spc' = "raised"
          /\ UNCHANGED <<fetched, sret>>
       \/ /\ wpc = "done"
          /\ IF NotFound(ret)
             THEN /\ sret' = <<>>
                  /\ spc' = "returned"
                  /\ UNCHANGED fetched
             ELSE /\ fetched' = Append(fetched, job_id)
                  /\ \/ /\ spc' = "raised"
                        /\ UNCHANGED sret
                     \/ \E payload \in ResultPayloads :
                           /\ sret' = payload
                           /\ spc' = "returned"
    /\ UNCHANGED <<wargs, timeout, elapsed, status, calls, ret, wpc, job_id>>
    /\ WaitFrame

WaitInit ==
    /\ LockIdle
    /\ ConcIdle
    /\ RunIdle
    /\ PubIdle
    /\ PlanIdle
    /\ ReqIdle
    /\ AuxIdle
    /\ storeFile = NoFile
    /\ wargs \in [wait : 0..MaxWait, timeout : 0..MaxTimeout, whatif : BOOLEAN]
    /\ timeout = wargs.timeout
    /\ elapsed = 0
    /\ status = <<>>
    /\ calls = <<>>
    /\ ret = -1
    /\ wpc = "idle"
    /\ job_id = 0
    /\ fetched = <<>>
    /\ sret = <<"none">>
    /\ spc = "start"

WaitNext ==
    \/ search_start
    \/ search_return
    \/ wait_search_enter
    \/ poll_status
    \/ check_timeout
    \/ final_status

WaitSpec == WaitInit /\ [][WaitNext]_vars

\* The same with the call running on: no step of search waits for anything
\* but the sleep and the answers of the service, which arrive or fail.
WaitFairSpec == WaitSpec /\ WF_vars(WaitNext)

(***************************************************************************)
(* GateSpec: the health checks of init_library, retry_until_ok(arr.status) *)
(* then retry_until_ok(qBit.version).  Whether an invocation of fn returns *)
(* or raises is an input.                                                  *)
(***************************************************************************)
GateFrame ==
    UNCHANGED <<lockVars, concVars, storeFile, runVars, pubVars, planVars, reqVars,
                waitVars, cronVars, acqVars, extVars>>

\* The (pause, timeout) pairs of a retry_until_ok call; init_library uses
\* pause = timeout (15, 15 and 60, 60).
GateArgs == [pause : 1..MaxPause, timeout : 0..MaxDeadline]

\* if waited >= timeout
Expired_strict(w, t) == w > t
Expired(w, t) == w >= t

\* One pass of the loop of retry_until_ok: fn() returns and so does
\* retry_until_ok; or fn() raises, and the exception is re-raised when
\* waited >= timeout, otherwise time.sleep(pause); waited += pause.
retry_invoke ==
    /\ gpc = "check"
    /\ \E good \in BOOLEAN :
          /\ outcomes' = Append(outcomes, good)
          /\ IF good
             THEN /\ gpc' = "ok"
                  /\ UNCHANGED <<waited, gerr>>
             ELSE IF Expired(waited, gargs.timeout)
             THEN /\ gerr' = Len(outcomes) + 1
                  /\ gpc' = "raised"
                  /\ UNCHANGED waited
             ELSE /\ waited' = waited + gargs.pause
                  /\ gpc' = "check"
                  /\ UNCHANGED gerr
    /\ UNCHANGED <<glabel, gargs>>
    /\ GateFrame

\* retry_until_ok returned: init_library goes on to the qBit check, or
\* returns the two clients.
gate_passed ==
    /\ gpc = "ok"
    /\ IF glabel = "arr"
       THEN /\ glabel' = "qBit"
            /\ gargs' \in GateArgs
            /\ waited' = 0
            /\ outcomes' = <<>>
            /\ gpc' = "check"
       ELSE /\ gpc' = "returned"
            /\ UNCHANGED <<glabel, gargs, waited, outcomes>>
    /\ UNCHANGED gerr
    /\ GateFrame

GateInit ==
    /\ LockIdle
    /\ ConcIdle
    /\ RunIdle
    /\ PubIdle
    /\ PlanIdle
    /\ ReqIdle
    /\ WaitIdle
    /\ CronIdle
    /\ AcqIdle
    /\ ExtIdle
    /\ storeFile = NoFile
    /\ glabel = "arr"
    /\ gargs \in GateArgs
    /\ waited = 0
    /\ outcomes = <<>>
    /\ gerr = 0
    /\ gpc = "check"

GateNext ==
    \/ retry_invoke
    \/ gate_passed

GateSpec == GateInit /\ [][GateNext]_vars

(***************************************************************************)
(* CronSpec: cron/rssrefresh.py, as a daemon that checks once per          *)
(* scheduled hour, or as a single run.  Time is in whole hours.            *)
(***************************************************************************)
CronFrame ==
    UNCHANGED <<lockVars, concVars, storeFile, runVars, pubVars, planVars, reqVars,
                waitVars, gateVars, acqVars, extVars>>

NoFeed == [exists |-> FALSE, mtime |-> 0]
Feed(t) == [exists |-> TRUE, mtime |-> t]

\* get_file_age_hours: float('inf') for a missing file, otherwise
\* (time.time() - mtime) / 3600.
get_file_age_hours(f, t) ==
    IF ~f.exists THEN [inf |-> TRUE, hours |-> 0]
    ELSE [inf |-> FALSE, hours |-> t - f.mtime]

\* A should_refresh that also refreshes at exactly the maximum age.
should_refresh_at_max(f, max_age_hours, t) ==
    LET age == get_file_age_hours(f, t)
    IN age.inf \/ age.hours >= max_age_hours

should_refresh(f, max_age_hours, t) ==
    LET age == get_file_age_hours(f, t)
    IN age.inf \/ age.hours > max_age_hours

\* One entry of the history of checks.
Check(f, t, forced, started) ==
    [at |-> t, exists |-> f.exists, age |-> get_file_age_hours(f, t).hours,
     forced |-> forced, started |-> started]

\* refresh_rss: webhook.run_requests() runs rss.builder.main; the run
\* writes the feed file or ends before its publish step.
refresh_rss(t) ==
    \E wrote \in BOOLEAN :
        /\ feed' = IF wrote THEN Feed(t) ELSE feed
        /\ crc' \in IF cargs.daemon THEN {crc} ELSE IF wrote THEN {0, 1} ELSE {1}

\* One pass of the loop of rss_refresh_cron: sleep until the next scheduled
\* time, then should_refresh and, if needed, refresh_rss.
cron_check ==
    /\ cpc = "loop"
    /\ cargs.daemon
    /\ Len(checks) < MaxChecks
    /\ cnow' = cnow + 1
    /\ LET needed == should_refresh(feed, cargs.max_age_hours, cnow')
       IN /\ checks' = Append(checks, Check(feed, cnow', FALSE, needed))
          /\ IF needed
             THEN refresh_rss(cnow')
             ELSE UNCHANGED <<feed, crc>>
    /\ UNCHANGED <<cargs, cpc>>
    /\ CronFrame

\* main() without --daemon: one check, forced or by should_refresh.
single_run ==
    /\ cpc = "loop"
    /\ ~cargs.daemon
    /\ LET needed == cargs.force \/ should_refresh(feed, cargs.max_age_hours, cnow)
       IN /\ checks' = Append(checks, Check(feed, cnow, cargs.force, needed))
          /\ IF needed
             THEN refresh_rss(cnow)
             ELSE /\ crc' = 0
                  /\ UNCHANGED feed
    /\ cpc' = "exited"
    /\ UNCHANGED <<cargs, cnow>>
    /\ CronFrame

\* Another trigger (the webhook) ran the orchestrator and it wrote the feed
\* file.
feed_written ==
    /\ cpc = "loop"
    /\ feed # Feed(cnow)
    /\ feed' = Feed(cnow)
    /\ UNCHANGED <<cargs, cnow, checks, crc, cpc>>
    /\ CronFrame

CronInit ==
    /\ LockIdle
    /\ ConcIdle
    /\ RunIdle
    /\ PubIdle
    /\ PlanIdle
    /\ ReqIdle
    /\ WaitIdle
    /\ GateIdle
    /\ AcqIdle
    /\ ExtIdle
    /\ storeFile = NoFile
    /\ cargs \in [daemon : BOOLEAN, force : BOOLEAN, max_age_hours : 1..MaxAge]
    /\ cnow \in 0..(MaxAge + 1)
    /\ feed \in {NoFeed, Feed(0)}
    /\ checks = <<>>
    /\ crc = -1
    /\ cpc = "loop"

CronNext ==
    \/ cron_check
    \/ single_run
    \/ feed_written

CronSpec == CronInit /\ [][CronNext]_vars

(***************************************************************************)
(* AcquireSpec: one call of FileLock.acquire(timeout) while another        *)
(* process holds, releases or takes the flock of the lock file.            *)
(***************************************************************************)
AcqFrame ==
    UNCHANGED <<lockVars, concVars, storeFile, runVars, pubVars, planVars, reqVars,
                waitVars, gateVars, cronVars, extVars>>

\* A timeout test that treats -1 as a number like any other.
TimedOut_no_sentinel(t, w) == w >= t
\* if timeout != -1 and wait_seconds >= timeout
TimedOut(t, w) == t # -1 /\ w >= t

\* The except branch: the descriptor is closed, then TimeoutError, or
\* wait_seconds += 1 and time.sleep(1).
acquire_failed(why) ==
    /\ tries' = Append(tries, why)
    /\ afd' = FALSE
    /\ IF TimedOut(atimeout, wait_seconds)
       THEN /\ apc' = "timed_out"
            /\ UNCHANGED wait_seconds
       ELSE /\ wait_seconds' = wait_seconds + 1
            /\ UNCHANGED apc
    /\ UNCHANGED <<alocked, other>>

\* One pass of the loop of acquire: os.open then flock(LOCK_EX | LOCK_NB);
\* the lock is taken, or one of the two calls raises OSError.
acquire_pass ==
    /\ apc = "try"
    /\ Len(tries) < MaxAttempts
    /\ \/ acquire_failed("open_failed")
       \/ /\ other
          /\ acquire_failed("busy")
       \/ /\ ~other
          /\ tries' = Append(tries, "ok")
          /\ afd' = TRUE
          /\ alocked' = TRUE
          /\ apc' = "acquired"
          /\ UNCHANGED <<wait_seconds, other>>
    /\ UNCHANGED atimeout
    /\ AcqFrame

\* The other process releases the lock, or a process takes the free lock.
other_process ==
    /\ apc = "try"
    /\ other' = ~other
    /\ UNCHANGED <<atimeout, wait_seconds, tries, afd, alocked, apc>>
    /\ AcqFrame

AcqInit ==
    /\ LockIdle
    /\ ConcIdle
    /\ RunIdle
    /\ PubIdle
    /\ PlanIdle
    /\ ReqIdle
    /\ WaitIdle
    /\ GateIdle
    /\ CronIdle
    /\ ExtIdle
    /\ storeFile = NoFile
    /\ atimeout \in {-1} \cup 0..MaxLockTimeout
    /\ wait_seconds = 0
    /\ tries = <<>>
    /\ afd = FALSE
    /\ alocked = FALSE
    /\ other = TRUE
    /\ apc = "try"

AcqNext ==
    \/ acquire_pass
    \/ other_process

AcquireSpec == AcqInit /\ [][AcqNext]_vars

(***************************************************************************)
(* DriverSpec: the request loop of run_for_library as the search service    *)
(* sees it: per item one qBit.search (search_start, the search_status      *)
(* calls of wait_search with its search_stop, search_results), then the     *)
(* rest of the iteration up to all_top.extend.  The answers of the service  *)
(* are inputs; the timing of wait_search is the subject of WaitSpec.        *)
(***************************************************************************)
DrvFrame == UNCHANGED <<coreVars, schedVars, hookVars, feedVars>>

\* One search API call: the request of the iteration that made it, the
\* pattern (search_start) and the job id returned (search_start, 0 when it
\* raised) or passed (the other calls).
ApiCall(o, r, a, j) == [op |-> o, req |-> r, arg |-> a, id |-> j]

\* The next item of `for item in search_requests`.
next_item ==
    /\ dix' = dix + 1
    /\ djob' = 0
    /\ dpolls' = 0
    /\ dpc' = "start"

\* An exception leaves the loop: nothing in run_for_library catches it.
leave_loop ==
    /\ dpc' = "raised"
    /\ UNCHANGED <<dix, djob, dpolls>>

\* job_id = self.search_start(query)
drv_search_start ==
    /\ dpc = "start"
    /\ dix <= Len(dreqs)
    /\ \/ /\ dlog' = Append(dlog, ApiCall("start", dix, dreqs[dix].string, 0))
          /\ leave_loop
       \/ \E id \in JobIds :
             /\ dlog' = Append(dlog, ApiCall("start", dix, dreqs[dix].string, id))
             /\ djob' = id
             /\ dpolls' = 0
             /\ dpc' = "wait"
             /\ dix' = dix
    /\ UNCHANGED <<dreqs, dtop>>
    /\ DrvFrame

\* wait_search(job_id): one search_status(job_id), at the top of the loop
\* or after it.  It raises, or the job is Stopped or the loop is over and
\* the total is returned (0: search returns []), or the loop goes on.
drv_search_status ==
    /\ dpc = "wait"
    /\ dlog' = Append(dlog, ApiCall("status", dix, "", djob))
    /\ \/ leave_loop
       \/ next_item
       \/ /\ dpc' = "results"
          /\ dpolls' = dpolls + 1
          /\ UNCHANGED <<dix, djob>>
       \/ /\ dpolls + 1 < MaxPolls
          /\ dpolls' = dpolls + 1
          /\ UNCHANGED <<dix, djob, dpc>>
    /\ UNCHANGED <<dreqs, dtop>>
    /\ DrvFrame

\* wait_search at the timeout: search_stop(job_id), exceptions suppressed.
drv_search_stop ==
    /\ dpc = "wait"
    /\ dpolls > 0
    /\ dlog[Len(dlog)].op = "status"
    /\ dlog' = Append(dlog, ApiCall("stop", dix, "", djob))
    /\ UNCHANGED <<dreqs, dix, djob, dpolls, dtop, dpc>>
    /\ DrvFrame

\* search_results(job_id), then the filter, optimize_results, add_torrent
\* and `o[k] = v` for the item's meta; all_top.extend(optimized).  Any of
\* the calls may raise; optimized holds from 0 to MaxBatch results.
drv_search_results ==
    /\ dpc = "results"
    /\ dlog' = Append(dlog, ApiCall("results", dix, "", djob))
    /\ \/ /\ leave_loop
          /\ dtop' = dtop
       \/ \E n \in 0..MaxBatch :
             /\ dtop' = dtop \o [i \in 1..n |->
                                   [job |-> djob, req |-> dix, meta |-> dreqs[dix].meta]]
             /\ next_item
    /\ UNCHANGED dreqs
    /\ DrvFrame

\* The loop is over: publish_results(all_top).
drv_loop_end ==
    /\ dpc = "start"
    /\ dix > Len(dreqs)
    /\ dpc' = "done"
    /\ UNCHANGED <<dreqs, dix, djob, dpolls, dlog, dtop>>
    /\ DrvFrame

\* The planner's requests of a TV run for series 1: the season pack of
\* season 1, then MaxRequests - 1 single episodes, or a prefix of these.
DrvRequest(i) ==
    IF i = 1
    THEN SeasonRequest(SampleSeries, 1, [e \in 1..MaxEpisodes |-> Episode(e)])
    ELSE EpisodeRequest(SampleSeries, Episode(MaxEpisodes + i - 1))

DrvInit ==
    /\ CoreIdle
    /\ SchedIdle
    /\ HookIdle
    /\ FeedIdle
    /\ \E n \in 0..MaxRequests : dreqs = [i \in 1..n |-> DrvRequest(i)]
    /\ dix = 1
    /\ djob = 0
    /\ dpolls = 0
    /\ dlog = <<>>
    /\ dtop = <<>>
    /\ dpc = "start"

DrvNext ==
    \/ drv_search_start
    \/ drv_search_status
    \/ drv_search_stop
    \/ drv_search_results
    \/ drv_loop_end

DriverSpec == DrvInit /\ [][DrvNext]_vars

(***************************************************************************)
(* ScheduleSpec: get_next_run_time for a schedule 'M * * * *' or            *)
(* 'M H * * *' and the sleep of the daemon loop that follows it.  A time is *)
(* a number of minutes since midnight of day 0 (seconds are cut off by      *)
(* replace(second=0, microsecond=0)); the day, month and weekday fields of  *)
(* the schedule are '*'.                                                    *)
(***************************************************************************)
SchedFrame == UNCHANGED <<coreVars, drvVars, hookVars, feedVars>>

\* '*' in a field of the schedule (None after parse_cron_schedule).
Star == -1

\* datetime fields, replace() and timedelta.
MinuteOf(t) == t % 60
HourOf(t) == (t \div 60) % 24
replace_minute(t, m) == t - MinuteOf(t) + m
replace_hour(t, h) == t - 60 * HourOf(t) + 60 * h
Hours(n) == 60 * n
Days(n) == 24 * 60 * n

\* "Handle minute" and "Handle hour" of get_next_run_time.
MinuteStep(t, minute) ==
    IF MinuteOf(t) >= minute
    THEN replace_minute(t, minute) + Hours(1)
    ELSE replace_minute(t, minute)
HourStep(t, hour) ==
    IF hour = Star THEN t
    ELSE IF HourOf(t) >= hour THEN replace_hour(t, hour) + Days(1)
    ELSE replace_hour(t, hour)

\* get_next_run_time(schedule) at time t; with minute '*' it returns now.
get_next_run_time(s, t) ==
    IF s.minute = Star THEN t ELSE HourStep(MinuteStep(t, s.minute), s.hour)

\* next_run = get_next_run_time(schedule)
next_run_call ==
    /\ scpc = "call"
    /\ next_run' = get_next_run_time(sched, snow)
    /\ scpc' = "sleep"
    /\ UNCHANGED <<sched, snow>>
    /\ SchedFrame

\* if seconds_until_next > 0: await asyncio.sleep(seconds_until_next); then
\* the check of should_refresh.
sleep_until_next ==
    /\ scpc = "sleep"
    /\ snow' = IF next_run > snow THEN next_run ELSE snow
    /\ scpc' = "check"
    /\ UNCHANGED <<sched, next_run>>
    /\ SchedFrame

\* The schedules and times of day followed: a few minutes and hours of the
\* schedule, every minute of day 0 as the current time.
ScheduleMinutes == {0, 30, 59}
ScheduleHours == {Star, 0, 5, 23}

SchedInit ==
    /\ CoreIdle
    /\ DrvIdle
    /\ HookIdle
    /\ FeedIdle
    /\ sched \in [minute : ScheduleMinutes, hour : ScheduleHours]
    /\ snow \in 0..(Days(1) - 1)
    /\ next_run = -1
    /\ scpc = "call"

SchedNext ==
    \/ next_run_call
    \/ sleep_until_next

ScheduleSpec == SchedInit /\ [][SchedNext]_vars

(***************************************************************************)
(* WebhookSpec: the two routes of routers/webhook.py.  A request is         *)
(* [method, auth, type, id, payload]: auth is the Authorization header      *)
(* (None when absent), type and id are the query parameters of GET, payload *)
(* is the kind of body of POST.  run_requests runs rss.builder.main; its    *)
(* exit code is an input.                                                   *)
(***************************************************************************)
HookFrame == UNCHANGED <<coreVars, drvVars, schedVars, feedVars>>

\* The configured WEBHOOK_KEY and the headers a request may carry.
WEBHOOK_KEY == "key"
AuthHeaders == {None, "", WEBHOOK_KEY, "other"}

\* Bodies of a POST: not JSON; JSON without an approved notification; an
\* approved movie; an approved series without and with requested seasons;
\* an approved media of another type.
Payloads == {"invalid", "unhandled", "movie", "tv", "tv_seasons", "music"}

GetRequests ==
    [method : {"GET"}, auth : {None, WEBHOOK_KEY}, type : {None, "Movies", "Other"},
     id : {None, "7"}, payload : {None}]
PostRequests ==
    [method : {"POST"}, auth : AuthHeaders, type : {None}, id : {None},
     payload : Payloads]

\* run_requests(type_name, external_id): --name only for Movies or TV.
RunRequest(n, type_name, external_id) ==
    [by |-> n,
     type |-> IF type_name \in {"Movies", "TV"} THEN type_name ELSE "Both",
     external |-> external_id]

\* What the POST handler does with a parsed payload whose header passed:
\* the status, and the task it creates.  requested_seasons.join raises
\* AttributeError and an unknown media_type leaves type_name unbound
\* (NameError): both end in a 500 without a task.
Handled(n, payload) ==
    IF payload = "invalid" THEN [status |-> 400, tasks |-> <<>>]
    ELSE IF payload = "unhandled" THEN [status |-> 200, tasks |-> <<>>]
    ELSE IF payload = "movie"
    THEN [status |-> 202, tasks |-> <<RunRequest(n, "Movies", "tmdb")>>]
    ELSE IF payload = "tv"
    THEN [status |-> 202, tasks |-> <<RunRequest(n, "TV", "tvdb")>>]
    ELSE [status |-> 500, tasks |-> <<>>]

\* GET /webhook: result = await run_requests(type, id); 200 or 500.
webhook_get ==
    /\ Len(hlog) < MaxHooks
    /\ \E req \in GetRequests, result \in {0, 1} :
          /\ hruns' = Append(hruns, RunRequest(Len(hlog) + 1, req.type, req.id))
          /\ hlog' = Append(hlog, [req |-> req,
                                   status |-> IF result = 0 THEN 200 ELSE 500])
    /\ UNCHANGED htasks
    /\ HookFrame

\* POST /webhook: the header checks, then the payload.
webhook ==
    /\ Len(hlog) < MaxHooks
    /\ \E req \in PostRequests :
          LET n == Len(hlog) + 1
              out == IF req.auth = None \/ req.auth = ""
                     THEN [status |-> 401, tasks |-> <<>>]
                     ELSE IF req.auth # WEBHOOK_KEY
                     THEN [status |-> 403, tasks |-> <<>>]
                     ELSE Handled(n, req.payload)
          IN /\ hlog' = Append(hlog, [req |-> req, status |-> out.status])
             /\ htasks' = htasks \o out.tasks
    /\ UNCHANGED hruns
    /\ HookFrame

\* The background task: after WEBHOOK_WAIT seconds, run_requests.
process_request ==
    /\ htasks # <<>>
    /\ hruns' = Append(hruns, Head(htasks))
    /\ htasks' = Tail(htasks)
    /\ UNCHANGED hlog
    /\ HookFrame

HookInit ==
    /\ CoreIdle
    /\ DrvIdle
    /\ SchedIdle
    /\ FeedIdle
    /\ hlog = <<>>
    /\ htasks = <<>>
    /\ hruns = <<>>

HookNext ==
    \/ webhook_get
    \/ webhook
    \/ process_request

WebhookSpec == HookInit /\ [][HookNext]_vars

(***************************************************************************)
(* FeedSpec: a tvsearch query of torznab_api against a store that holds     *)
(* the results the orchestrator published for planned requests, each        *)
(* stamped with its request's meta.  q and cat are absent.                  *)
(***************************************************************************)
FeedFrame == UNCHANGED <<coreVars, drvVars, schedVars, hookVars>>

\* x.get(k) == v for a value v that is not None.
FieldIs(x, k, v) == k \in DOMAIN x /\ x[k] = v

\* A query parameter that was not sent is None; q.given names the sent ones.
Absent(q, k) == k \notin q.given

\* The four extra filters of the tvsearch branch.
TypeFilter(x) == FieldIs(x, "type", "TV")
TvdbFilter(x, q) == Absent(q, "tvdbid") \/ FieldIs(x, "tvdbid", q.tvdbid)
SeasonFilter(x, q) == Absent(q, "season") \/ FieldIs(x, "season", q.season)
EpisodeFilter(x, q) == Absent(q, "ep") \/ FieldIs(x, "episode", q.ep)

\* filter_items(torrents, extra_filters=[...])
filter_items(torrents, q) ==
    SelectSeq(torrents, LAMBDA x : /\ TypeFilter(x)
                                   /\ TvdbFilter(x, q)
                                   /\ SeasonFilter(x, q)
                                   /\ EpisodeFilter(x, q))

\* torznab_api with t = tvsearch: the API key check, then the filters.
tvsearch ==
    /\ fpc = "call"
    /\ IF fquery.apikey # "API_KEY"
       THEN /\ fpc' = "rejected"
            /\ fitems' = fitems
       ELSE /\ fpc' = "done"
            /\ fitems' = filter_items(fstore, fquery)
    /\ UNCHANGED <<fstore, fquery>>
    /\ FeedFrame

\* The requests whose results are in the store: the season pack of season 1,
\* single episodes of seasons 1 and 2, a movie; one published record each.
FeedRequests ==
    <<SeasonRequest(SampleSeries, 1, [e \in 1..MaxEpisodes |-> Episode(e)]),
      EpisodeRequest(SampleSeries, Episode(1)),
      EpisodeRequest(SampleSeries, Episode(MaxEpisodes + 1)),
      MovieRequest(Movie(1))>>
Published(r, k) == WithMeta(<<Rec(k, 0, 12)>>, r.meta)

FeedInit ==
    /\ CoreIdle
    /\ DrvIdle
    /\ SchedIdle
    /\ HookIdle
    /\ \E a \in DOMAIN FeedRequests :
          \/ fstore = Published(FeedRequests[a], 1)
          \/ \E b \in DOMAIN FeedRequests \ {a} :
                fstore = Published(FeedRequests[a], 1) \o Published(FeedRequests[b], 2)
    /\ fquery \in [apikey : {"API_KEY", "other"}, given : SUBSET {"tvdbid", "season", "ep"},
                    tvdbid : {SampleSeries.tvdbId}, season : Seasons, ep : 0..MaxEpisodes]
    /\ fitems = <<"none">>
    /\ fpc = "call"

FeedNext == tvsearch

FeedSpec == FeedInit /\ [][FeedNext]_vars

(***************************************************************************)
(* Properties of the Request Planner.                                       *)
(***************************************************************************)
\* The ids of the queue records, and of those not "completed".
QueuedIds == {queued[i].id : i \in 1..Len(queued)}
BusyIds == {queued[i].id : i \in {j \in 1..Len(queued) : queued[j].status # "completed"}}

\* M: the wanted episodes of season n of series sid that are not in the
\* queue with a non-completed status.
MissingOf(sid, n) ==
    SelectSeq(wanted, LAMBDA ep : ep.seriesId = sid /\ ep.seasonNumber = n
                                     /\ ep.id \notin BusyIds)

\* The emitted requests that cover episodes of season n of series sid.
RequestsOf(sid, n) ==
    SelectSeq(search_requests,
              LAMBDA r : \E i \in 1..Len(r.request) :
                             r.request[i].seriesId = sid /\ r.request[i].seasonNumber = n)

RequestsFor(i) == SelectSeq(search_requests, LAMBDA r : r.request.id = i)

RequestedIds ==
    IF kind = "Movies"
    THEN {search_requests[i].request.id : i \in 1..Len(search_requests)}
    ELSE UNION {{search_requests[i].request[j].id :
                     j \in 1..Len(search_requests[i].request)} :
                i \in 1..Len(search_requests)}

\* C15: no request is emitted for a wanted item that is in the queue,
\* whether its queue status is downloading or completed.
C15_NoRequestForQueuedItem ==
    (plpc = "done") => (RequestedIds \cap QueuedIds = {})

(***************************************************************************)
(* Properties of the feed lookup.                                           *)
(***************************************************************************)
\* C38: a record published for a TV request of season s and episode e (0
\* for a season pack) is among the items of an authorised tvsearch query
\* that sends season = s and ep = e (and no other series' tvdbid).
C38_FeedFindsStampedRecords ==
    (fpc = "done") =>
        \A i \in 1..Len(fstore) :
            (/\ fstore[i].type = "TV"
             /\ Absent(fquery, "tvdbid") \/ fquery.tvdbid = fstore[i].tvdbid
             /\ ~Absent(fquery, "season") /\ fquery.season = fstore[i].season
             /\ ~Absent(fquery, "ep") /\ fquery.ep = fstore[i].ep)
                => \E j \in 1..Len(fitems) : fitems[j].descrLink = fstore[i].descrLink

(***************************************************************************)
(* Properties of the webhook routes.                                        *)
(***************************************************************************)
\* Request n carried the configured key.
Keyed(n) == hlog[n].req.auth = WEBHOOK_KEY

\* C37: every orchestrator run started and every run scheduled by the
\* webhook routes comes from a request that carried the configured
\* WEBHOOK_KEY; a POST without Authorization header gets 401 and one with a
\* wrong key 403, whatever its payload.
C37_WebhookAuthorization ==
    /\ \A i \in 1..Len(hruns) : Keyed(hruns[i].by)
    /\ \A i \in 1..Len(htasks) : Keyed(htasks[i].by)
    /\ \A n \in 1..Len(hlog) :
          hlog[n].req.method = "POST" =>
              /\ hlog[n].req.auth = None => hlog[n].status = 401
              /\ hlog[n].req.auth \notin {None, "", WEBHOOK_KEY} => hlog[n].status = 403

(***************************************************************************)
(* Properties of the schedule of the cron daemon.                           *)
(***************************************************************************)
\* Time t is a time of the schedule: its minute is M, and its hour is H when
\* the schedule has one.
OnSchedule(t) ==
    /\ MinuteOf(t) = sched.minute
    /\ sched.hour # Star => HourOf(t) = sched.hour

\* C35: get_next_run_time returns the earliest time after the current
\* minute that is on the schedule; it is at most 1 hour ahead for
\* 'M * * * *' and less than 24 hours ahead for 'M H * * *' (at most 24
\* hours after the start of the current minute, snow).
C35_NextRunTime ==
    (scpc # "call") =>
        /\ next_run > snow \/ scpc = "check"
        /\ OnSchedule(next_run)
        /\ scpc = "sleep" =>
              /\ \A t \in (snow + 1)..(next_run - 1) : ~OnSchedule(t)
              /\ IF sched.hour = Star
                 THEN next_run - snow <= Hours(1)
                 ELSE next_run - snow <= Days(1)

(***************************************************************************)
(* Properties of the request loop and its search API calls.                 *)
(***************************************************************************)
\* The search_start calls so far, in order, and the job id search_start
\* returned in the iteration of request k.
Starts == SelectSeq(dlog, LAMBDA c : c.op = "start")
JobOf(k) == (CHOOSE c \in {dlog[i] : i \in 1..Len(dlog)} : c.op = "start" /\ c.req = k).id

\* The calls made so far are those of the first n requests, one
\* search_start each, in planner order, with the request's query.
StartedInOrder(n) ==
    /\ Len(Starts) = n
    /\ \A k \in 1..n : Starts[k].req = k /\ Starts[k].arg = dreqs[k].string

\* Every status, stop and results call carries the job id that the
\* search_start of its own request returned, and every collected result is
\* stamped with the meta of the request whose job it was fetched with.
JobsKeptApart ==
    /\ \A i \in 1..Len(dlog) :
          dlog[i].op # "start" => dlog[i].id = JobOf(dlog[i].req)
    /\ \A i \in 1..Len(dtop) :
          /\ dtop[i].job = JobOf(dtop[i].req)
          /\ dtop[i].meta = dreqs[dtop[i].req].meta

\* C33: when the loop has ended, every planned request has had exactly one
\* search_start, in planner order; the job id returned for a request is the
\* one used in the status, stop and results calls of that request and of no
\* other; results carry the meta of the request whose job produced them.
C33_EachRequestSearchedOnce ==
    /\ JobsKeptApart
    /\ (dpc \in {"done", "raised"}) => StartedInOrder(Len(dreqs))

(***************************************************************************)
(* Properties of one iteration of the request loop.                         *)
(***************************************************************************)
\* The request's library and runtime.
ReqType == request.meta.type
ReqRuntime == Runtime(ReqType, request.request)

\* The candidate behind a scored or published result.
Source(x) ==
    [Cand(x.fileName, x.fileSize, x.nbSeeders) EXCEPT !.siteUrl = x.siteUrl,
                                                       !.pubDate = x.pubDate]

\* Every candidate that got past the filter, into the results of
\* optimize_results, to add_torrent or into all_top.
Downstream ==
    {filtered[i] : i \in 1..Len(filtered)}
        \cup {Source(optimized[i]) : i \in 1..Len(optimized)}
        \cup {Source(added[i]) : i \in 1..Len(added)}
        \cup {Source(all_top[i]) : i \in 1..Len(all_top)}

\* C16: a candidate whose fileSize is -1 never survives the filter and so
\* never reaches scoring, add_torrent or all_top (what is published),
\* whatever the match and ignore patterns of the request.
C16_ErroredCandidateNeverSurvives ==
    \A c \in Downstream : c.fileSize # -1

\* A candidate with fileSize -1 that passes the pattern tests was dropped
\* while another candidate of the same search was selected and added.
C16_Witness ==
    /\ rpc = "end"
    /\ added # <<>>
    /\ \E i \in 1..Len(candidates) :
           /\ candidates[i].fileSize = -1
           /\ Matched(request, candidates[i])
           /\ ~Ignored(request, candidates[i])

\* The flags and score optimize_results computes for filtered[i] when the
\* candidates are list.
FlagsAt(list, i) == Flags(list[i], list, ReqType, ReqRuntime)
ScoreAt(list, i) == ScoreOf(FlagsAt(list, i), ReqType)

\* C17: raising the seed count of one candidate of the request, the others
\* unchanged, never turns its seeds_10 or seeds_50 flag from true to false
\* and never lowers its score.
C17_ScoreMonotonicInSeeds ==
    (rpc \in {"trigger", "end", "raised"}) =>
        \A i \in 1..Len(filtered) :
            \A n \in {m \in SeedCounts : m > filtered[i].nbSeeders} :
                LET more == [filtered EXCEPT ![i].nbSeeders = n]
                IN /\ FlagsAt(filtered, i).seeds_10 => FlagsAt(more, i).seeds_10
                   /\ FlagsAt(filtered, i).seeds_50 => FlagsAt(more, i).seeds_50
                   /\ ScoreAt(more, i) >= ScoreAt(filtered, i)

\* Two candidates were scored; the one below half the maximum seed count
\* gains the seeds_50 flag and score when its seed count is raised to it.
C17_Witness ==
    /\ rpc = "end"
    /\ Len(filtered) >= 2
    /\ \E i \in 1..Len(filtered) :
           /\ FlagsAt(filtered, i).seeds_10
           /\ ~FlagsAt(filtered, i).seeds_50
           /\ \E n \in SeedCounts :
                  /\ n > filtered[i].nbSeeders
                  /\ FlagsAt([filtered EXCEPT ![i].nbSeeders = n], i).seeds_50
                  /\ ScoreAt([filtered EXCEPT ![i].nbSeeders = n], i)
                         > ScoreAt(filtered, i)

\* sizeWindowMin of a candidate: between 10x and 60x the request's runtime
\* in MiB, both included.
InSizeWindow(c) ==
    10 * ReqRuntime <= MB_per_min(c) /\ MB_per_min(c) <= 60 * ReqRuntime

ExampleCandidate == Cand(<<"Alpha", "2020", "1080p">>, 30 * 100, 50)

\* C19: for the movie {Alpha, 2020, runtime 100} the request has query
\* "Alpha 2020" and match pattern "2020"; the candidate {Alpha.2020.1080p,
\* 30*100 MiB, 50 seeders}, alone in the search (maximum seeders 50), passes
\* the filter, has highSeedRatio, midSeedRatio, qualityMarker, sizeWindowMin
\* and sizeWindowBest true and category "HD", and is selected.
C19_EndToEndExample ==
    (/\ rpc \in {"trigger", "end", "raised"}
     /\ request = MovieRequest([id |-> 1, title |-> "Alpha", year |-> 2020,
                                runtime |-> 100])
     /\ candidates = <<ExampleCandidate>>) =>
        /\ request.string = "Alpha 2020"
        /\ request.match = "2020"
        /\ filtered = <<ExampleCandidate>>
        /\ max_seeders(filtered) = 50
        /\ FlagsAt(filtered, 1).seeds_10
        /\ FlagsAt(filtered, 1).seeds_50
        /\ FlagsAt(filtered, 1).quality
        /\ FlagsAt(filtered, 1).sizeMin
        /\ FlagsAt(filtered, 1).sizeBest
        /\ Len(optimized) = 1
        /\ optimized[1].category = "HD"
        /\ optimized[1].score > 5
        /\ Source(optimized[1]) = ExampleCandidate

\* The example ran to the end of the iteration and its candidate was added.
C19_Witness ==
    /\ rpc = "end"
    /\ request = MovieRequest(Movie(1))
    /\ candidates = <<ExampleCandidate>>
    /\ Len(all_top) = 1
    /\ all_top[1].category = "HD"
    /\ added = <<optimized[1]>>

\* The rule of the claim for one candidate: the match pattern, if any, is
\* contained in the file name or matches it; the ignore pattern, if any,
\* does not match it; the size is not the error value.
PassesMatch(c) ==
    request.match = None
        \/ str_in(request.match, c.fileName) \/ re_search(request.match, c.fileName)
HitsIgnore(c) == request.ignore # None /\ re_search(request.ignore, c.fileName)
\* The largest seed count of a list of candidates.
SeedMax(list) == MaxOf([i \in 1..Len(list) |-> list[i].nbSeeders])

\* C29: the filter keeps, in order, exactly the candidates that pass the
\* match rule, do not hit the ignore pattern and have a valid size; scoring
\* works on the kept candidates only: the score of every result is the one
\* computed with the maximum seed count of the kept candidates.
C29_PatternFiltering ==
    (rpc \in {"optimize", "trigger", "end", "raised"}) =>
        /\ \A i \in 1..Len(candidates) :
              LET c == candidates[i]
              IN /\ ~PassesMatch(c) => c \notin Downstream
                 /\ HitsIgnore(c) => c \notin Downstream
        /\ filtered = SelectSeq(candidates,
                LAMBDA c : PassesMatch(c) /\ ~HitsIgnore(c) /\ c.fileSize # -1)
        /\ rpc # "optimize" =>
              \A i \in 1..Len(optimized) :
                  \E k \in 1..Len(filtered) :
                      /\ filtered[k] = Source(optimized[i])
                      /\ optimized[i].score = ScoreAt(filtered, k)
                      /\ max_seeders(filtered) = max(1, SeedMax(filtered))

\* A candidate with more seeders than any kept one was dropped by the
\* pattern tests; the kept candidate was scored against the kept maximum
\* and selected with a higher score than it would have had against the
\* dropped one.
C29_Witness ==
    /\ rpc = "end"
    /\ Len(candidates) = 2
    /\ Len(filtered) = 1
    /\ Len(optimized) = 1
    /\ \E i \in 1..2 :
          /\ candidates[i].fileSize # -1
          /\ (~PassesMatch(candidates[i]) \/ HitsIgnore(candidates[i]))
          /\ candidates[i].nbSeeders > SeedMax(filtered)
    /\ ScoreAt(candidates, CHOOSE k \in 1..2 : candidates[k] = filtered[1])
           < optimized[1].score

\* The category tables of the claim, lowest category first, with the lower
\* bound of each category's rate (MiB per minute of runtime).
CategoryTable(type) ==
    IF type = "Movies"
    THEN <<[label |-> "SD", from |-> 0], [label |-> "HD", from |-> 25],
           [label |-> "UHD", from |-> 60]>>
    ELSE <<[label |-> "WEB-DL", from |-> 0], [label |-> "SD", from |-> 25],
           [label |-> "HD", from |-> 40], [label |-> "UHD", from |-> 60]>>

\* The rows of the table whose rate interval holds a size of mb MiB:
\* from <= mb / runtime < from of the next row.
RowsOf(type, mb, runtime) ==
    LET t == CategoryTable(type)
    IN {k \in 1..Len(t) :
           /\ t[k].from * runtime <= mb
           /\ k < Len(t) => mb < t[k + 1].from * runtime}

\* The category optimize_results computes for candidate c of the request,
\* and the row of the table that carries this label (0 if none).
CategoryOf(c) == Category(ReqType, MB_per_min(c), ReqRuntime)
RankOf(c) ==
    LET t == CategoryTable(ReqType)
    IN IF \E k \in 1..Len(t) : t[k].label = CategoryOf(c)
       THEN CHOOSE k \in 1..Len(t) : t[k].label = CategoryOf(c)
       ELSE 0

\* C31: the category of every candidate is the label of the one row of its
\* library's table (Movies: SD below 25, HD from 25, UHD from 60; TV: WEB-DL
\* below 25, SD from 25, HD from 40, UHD from 60) whose rate interval holds
\* its size relative to the runtime; a returned result carries that label;
\* and of two candidates of one request the larger never has the lower
\* category.
C31_CategoryTables ==
    (rpc \in {"optimize", "trigger", "end", "raised"}) =>
        /\ \A k \in 1..Len(filtered) :
              /\ RowsOf(ReqType, filtered[k].fileSize, ReqRuntime) = {RankOf(filtered[k])}
              /\ \A j \in 1..Len(filtered) :
                    filtered[k].fileSize <= filtered[j].fileSize
                        => RankOf(filtered[k]) <= RankOf(filtered[j])
        /\ \A i \in 1..Len(optimized) :
              optimized[i].category = CategoryOf(Source(optimized[i]))

\* A TV search returned two candidates one MiB apart around the threshold
\* 60 * runtime: both were selected, the smaller as HD and the larger as UHD.
C31_Witness ==
    /\ rpc = "end"
    /\ ReqType = "TV"
    /\ Len(optimized) = 2
    /\ \E i, j \in 1..2 :
          /\ optimized[i].fileSize = 60 * ReqRuntime - 1
          /\ optimized[i].category = "HD"
          /\ optimized[j].fileSize = 60 * ReqRuntime
          /\ optimized[j].category = "UHD"

\* The scored candidates optimize_results selects from the filtered ones.
SelectedOf(list) ==
    SelectSeq(ScoredAll(list, ReqType, request.request, now), Selected)

\* The results are in the order of the claim: descending by score and, for
\* equal scores, by pubDate, a missing pubDate below every present one.
InClaimedOrder(list) ==
    \A i, j \in 1..Len(list) :
        i < j =>
            \/ list[i].score > list[j].score
            \/ /\ list[i].score = list[j].score
               /\ list[i].pubDate >= list[j].pubDate

\* optimized holds the selected candidates in the claimed order, the one
\* of maximum score first.
OrderedResults ==
    /\ Len(optimized) = Len(SelectedOf(filtered))
    /\ \A k \in 1..Len(SelectedOf(filtered)) :
          \E i \in 1..Len(optimized) : optimized[i] = Strip(SelectedOf(filtered)[k])
    /\ InClaimedOrder(optimized)
    /\ \A i \in 1..Len(optimized) : optimized[1].score >= optimized[i].score

\* C32: optimize_results completes for every mix of present and missing
\* pubDate, and returns the selected candidates sorted descending by
\* (score, pubDate), a missing pubDate ordered below every present one of
\* the same score; the first result has the maximum score.
C32_ResultOrdering ==
    (rpc \in {"trigger", "end", "raised"}) =>
        /\ exc # "TypeError"
        /\ OrderedResults

\* C39: a result optimize_results returns has category UHD only when its
\* size is exactly 60 times the runtime (in MiB); every other returned
\* result is SD or HD for Movies and WEB-DL, SD or HD for TV.
C39_SelectedCategories ==
    \A i \in 1..Len(optimized) :
        IF optimized[i].fileSize = 60 * ReqRuntime
        THEN optimized[i].category = "UHD"
        ELSE optimized[i].category \in
                 (IF ReqType = "Movies" THEN {"SD", "HD"} ELSE {"WEB-DL", "SD", "HD"})

\* A search returned a candidate of exactly 60 * runtime MiB and one a MiB
\* larger: only the first was returned, as UHD.
C39_Witness ==
    /\ rpc = "end"
    /\ Len(candidates) = 2
    /\ Len(optimized) = 1
    /\ optimized[1].category = "UHD"
    /\ optimized[1].fileSize = 60 * ReqRuntime
    /\ \E i \in 1..2 : candidates[i].fileSize = 60 * ReqRuntime + 1

\* The weights of the claim for the library.
ClaimedScore(c, type, runtime, top) ==
    7 * B2N(10 * c.nbSeeders >= top)
    + 5 * B2N(25 * runtime <= MB_per_min(c) /\ MB_per_min(c) <= 40 * runtime)
    + (IF type = "Movies" THEN 2 ELSE 3) * B2N(2 * c.nbSeeders >= top)
    + (IF type = "Movies" THEN 1 ELSE 2)
          * B2N(str_in("1080p", c.fileName) \/ str_in("2160p", c.fileName))
    + (IF type = "Movies" THEN 3 ELSE 1) * B2N(c.siteUrl = "https://torrents-csv.com")

\* The flags and the score of every scored candidate and the score of every
\* result are those of the claim when the maximum seed count is top.
ScoresAgree(top) ==
    /\ \A k \in 1..Len(filtered) :
          /\ FlagsAt(filtered, k).seeds_10 <=> (10 * filtered[k].nbSeeders >= top)
          /\ FlagsAt(filtered, k).seeds_50 <=> (2 * filtered[k].nbSeeders >= top)
          /\ ScoreAt(filtered, k) = ClaimedScore(filtered[k], ReqType, ReqRuntime, top)
    /\ \A i \in 1..Len(optimized) :
          optimized[i].score = ClaimedScore(Source(optimized[i]), ReqType, ReqRuntime, top)

\* C30 as stated: highSeedRatio iff the seed count is at least 10% of the
\* maximum seed count of the request's candidates, midSeedRatio iff at least
\* 50%, and the score is the sum of the weights (Movies 7, 5, 2, 1, 3; TV
\* 7, 5, 3, 2, 1) of the true flags among highSeedRatio, sizeWindowBest,
\* midSeedRatio, qualityMarker, preferredSource.
C30_ScoreDefinition ==
    (rpc \in {"trigger", "end", "raised"}) => ScoresAgree(SeedMax(filtered))

\* C30 with the maximum seed count taken as 1 when no candidate of the
\* request has a seeder (a candidate without seeders then has neither seed
\* flag).
C30_ScoreDefinitionWithSeedFloor ==
    (rpc \in {"trigger", "end", "raised"}) => ScoresAgree(max(1, SeedMax(filtered)))

\* A TV result from the preferred source with all five flags was selected
\* with the full score of 7 + 5 + 3 + 2 + 1.
C30_Witness ==
    /\ rpc = "end"
    /\ ReqType = "TV"
    /\ Len(optimized) >= 1
    /\ optimized[1].siteUrl = "https://torrents-csv.com"
    /\ optimized[1].score = 18
    /\ \E k \in 1..Len(filtered) : filtered[k].nbSeeders = 0

(***************************************************************************)
(* Properties of wait_search.                                              *)
(***************************************************************************)
StatusCalls == {i \in 1..Len(calls) : calls[i].op = "status"}
StopCalls == {i \in 1..Len(calls) : calls[i].op = "stop"}
\* The status reads made at the top of the loop: those not following a stop.
LoopReads == {i \in StatusCalls : i = 1 \/ calls[i - 1].op # "stop"}

\* C20: with a positive poll interval, wait_search reads the status one
\* poll interval after the other (the last read of the loop at the timeout);
\* a read of the loop that reports Stopped ends the call with that total and
\* without a stop; a read that does not report Stopped at elapsed >= timeout
\* is followed by one stop, no stop is issued earlier or twice, and after the
\* stop, failed or not, one status read follows whose total is returned; the
\* call raises only when a status read itself fails.
C20_SearchTimeoutProtocol ==
    (wpc \notin {"idle", "call"} /\ wargs.wait > 0) =>
        /\ calls # <<>> => (calls[1].op = "status" /\ calls[1].at = 0)
        /\ \A i \in LoopReads :
              (i + 1 \in LoopReads) =>
                  /\ calls[i + 1].at = min(calls[i].at + wargs.wait, timeout)
                  /\ calls[i + 1].at > calls[i].at
        /\ \A i \in LoopReads :
              calls[i].st = "Stopped" =>
                  /\ i = Len(calls)
                  /\ StopCalls = {}
                  /\ wpc = "done"
                  /\ ret = Total(status)
        /\ \A i \in LoopReads :
              (calls[i].st = "Running" /\ calls[i].at >= timeout) =>
                  IF i = Len(calls) THEN wpc = "check" ELSE i + 1 \in StopCalls
        /\ Cardinality(StopCalls) <= 1
        /\ \A i \in StopCalls :
              /\ calls[i].at >= timeout
              /\ i - 1 \in LoopReads
              /\ calls[i - 1].st = "Running"
              /\ calls[i - 1].at = calls[i].at
              /\ IF i = Len(calls)
                 THEN wpc = "final"
                 ELSE /\ i + 1 = Len(calls)
                      /\ calls[i + 1].op = "status"
                      /\ wpc \in {"done", "raised"}
        /\ wpc = "final" => StopCalls # {}
        /\ wpc = "done" =>
              /\ ret = Total(status)
              /\ ret >= 0
              /\ calls[Len(calls)].op = "status"
              /\ calls[Len(calls)].st # "raised"
              /\ (Len(calls) \in LoopReads <=> calls[Len(calls)].st = "Stopped" /\ StopCalls = {})
        /\ wpc = "raised" =>
              /\ calls[Len(calls)].op = "status"
              /\ calls[Len(calls)].st = "raised"

\* The job never reported Stopped during three polls, the stop at the timeout
\* failed, and the final read's total was returned.
C20_Witness ==
    /\ wpc = "done"
    /\ wargs.wait > 0
    /\ Cardinality(LoopReads) >= 3
    /\ \E i \in StopCalls : calls[i].st = "raised"
    /\ status.status = "Running"
    /\ ret = MaxTotal

\* ceil(a / b) for b > 0.
Ceil(a, b) == (a + b - 1) \div b

C21_ResultsFetchedOnlyWhenFound ==
    /\ Len(fetched) <= 1
    /\ \A i \in 1..Len(fetched) : fetched[i] = job_id /\ job_id \in JobIds
    /\ fetched # <<>> => (wpc = "done" /\ ret # 0 /\ spc \in {"returned", "raised"})
    /\ spc = "returned" =>
          /\ wpc = "done"
          /\ IF ret = 0
             THEN fetched = <<>> /\ sret = <<>>
             ELSE fetched = <<job_id>> /\ sret \in ResultPayloads
    /\ (spc = "raised" /\ wpc = "done") => (ret # 0 /\ fetched = <<job_id>>)

\* The search of the last job id timed out, its final count was zero and
\* search returned the empty sequence.
C21_Witness ==
    /\ spc = "returned"
    /\ job_id = NumJobs
    /\ StopCalls # {}
    /\ ret = 0
    /\ sret = <<>>

(***************************************************************************)
(* Properties of the health gate.                                          *)
(***************************************************************************)
\* The accumulated wait before invocation k of fn (1-based).
WaitBefore(k) == (k - 1) * gargs.pause

\* C22: retry_until_ok returns at the first invocation of check that
\* succeeds, having made no further one; every failed invocation made while
\* the accumulated wait is below the deadline is followed by one pause and
\* a retry; the failure that is propagated is the last one, made with an
\* accumulated wait >= deadline; check is invoked at most
\* ceil(deadline / interval) + 1 times.
C22_HealthGateRetry ==
    (gpc # "idle") =>
        /\ Len(outcomes) <= Ceil(gargs.timeout, gargs.pause) + 1
        /\ \A k \in 1..(Len(outcomes) - 1) :
              /\ ~outcomes[k]
              /\ WaitBefore(k) < gargs.timeout
        /\ gpc = "check" =>
              /\ waited = WaitBefore(Len(outcomes) + 1)
              /\ \A k \in 1..Len(outcomes) :
                    ~outcomes[k] /\ WaitBefore(k) < gargs.timeout
              /\ gerr = 0
        /\ gpc \in {"ok", "returned"} =>
              /\ outcomes # <<>>
              /\ outcomes[Len(outcomes)]
              /\ waited = WaitBefore(Len(outcomes))
              /\ gerr = 0
        /\ gpc = "raised" =>
              /\ outcomes # <<>>
              /\ ~outcomes[Len(outcomes)]
              /\ gerr = Len(outcomes)
              /\ waited = WaitBefore(Len(outcomes))
              /\ waited >= gargs.timeout

\* The qBit check failed at every invocation: two pauses, then the third
\* failure was propagated, the number of invocations being the bound.
C22_Witness ==
    /\ gpc = "raised"
    /\ glabel = "qBit"
    /\ Len(outcomes) = 3
    /\ Len(outcomes) = Ceil(gargs.timeout, gargs.pause) + 1
    /\ gargs.pause = gargs.timeout \div 2

(***************************************************************************)
(* Properties of acquire(timeout).                                         *)
(***************************************************************************)
\* Every attempt so far found the lock held by another process.
StayedHeld == \A k \in 1..Len(tries) : tries[k] = "busy"

\* C25: with a finite timeout t >= 0 acquire makes at most t + 1 attempts;
\* when the lock stays held by another process the attempt number t + 1
\* raises the timeout error, with no descriptor open and the lock not
\* marked held; no timeout error is raised earlier; with timeout -1 no
\* timeout error is raised and acquire is still retrying after any number
\* of failed attempts.
C25_BoundedAcquisition ==
    (apc # "idle") =>
        /\ atimeout >= 0 =>
              /\ Len(tries) <= atimeout + 1
              /\ (StayedHeld /\ Len(tries) = atimeout + 1) => apc = "timed_out"
        /\ apc = "timed_out" =>
              /\ atimeout >= 0
              /\ Len(tries) = atimeout + 1
              /\ wait_seconds = atimeout
              /\ \A k \in 1..Len(tries) : tries[k] # "ok"
              /\ ~afd
              /\ ~alocked
        /\ atimeout = -1 =>
              /\ apc \in {"try", "acquired"}
              /\ (\A k \in 1..Len(tries) : tries[k] # "ok") =>
                     (apc = "try" /\ wait_seconds = Len(tries) /\ ~afd /\ ~alocked)
        /\ apc = "acquired" <=> (tries # <<>> /\ tries[Len(tries)] = "ok")

\* The lock stayed held and acquire with the largest finite timeout raised
\* the timeout error at its last allowed attempt.
C25_Witness ==
    /\ apc = "timed_out"
    /\ atimeout = MaxLockTimeout
    /\ StayedHeld
    /\ other
    /\ Len(tries) = MaxLockTimeout + 1

(***************************************************************************)
(* Properties of the cron job.                                             *)
(***************************************************************************)
\* C28: at every check the cron job has made, an orchestrator run was
\* started exactly when the feed file did not exist or was older than the
\* maximum age, or the refresh was forced; a file changed within the
\* maximum age, without force, started none.
C28_PeriodicTriggerCondition ==
    (cpc # "idle") =>
        \A k \in 1..Len(checks) :
            LET c == checks[k]
            IN /\ c.started <=>
                      (c.forced \/ ~c.exists \/ c.age > cargs.max_age_hours)
               /\ (c.exists /\ c.age <= cargs.max_age_hours /\ ~c.forced)
                      => ~c.started

\* The daemon found the file at exactly the maximum age and started no run,
\* and started one at the next check.
C28_Witness ==
    /\ cargs.daemon
    /\ \E k \in 1..(Len(checks) - 1) :
          /\ checks[k].exists
          /\ checks[k].age = cargs.max_age_hours
          /\ ~checks[k].started
          /\ checks[k + 1].started
          /\ checks[k + 1].age = cargs.max_age_hours + 1

(***************************************************************************)
(* Properties of publish_results.                                           *)
(***************************************************************************)
\* The list on disk, the list that was on disk before the call, the cutoff.
Written == LoadExisting(storeFile)
Before == LoadExisting(store0)
Cutoff == subtract_days(now, days)

InList(rec, list) == \E i \in 1..Len(list) : list[i] = rec
HasKey(k, list) == \E i \in 1..Len(list) : list[i].descrLink = k

\* C9 as claimed: every record of the written store has lastAdded (as
\* IsoTimeFormatter reads it) >= now - d, and an existing record older than
\* the cutoff that is not re-found is evicted.
C9_AllRecordsWithinRetention ==
    (ppc = "done") =>
        /\ \A i \in 1..Len(Written) : IsoTime(Written[i].lastAdded, now) >= Cutoff
        /\ \A i \in 1..Len(Before) :
               (IsoTime(Before[i].lastAdded, now) < Cutoff
                   /\ ~HasKey(Before[i].descrLink, results))
               => ~InList(Before[i], Written)

\* C9 as the code has it: every record of the written store is a new result
\* or an existing record with lastAdded >= now - d; the new results are
\* written whatever their lastAdded, so the bound holds for every record once
\* d is at least a day; an existing record older than the cutoff that is not
\* re-found is evicted.
C9_KeptRecordsWithinRetention ==
    (ppc = "done") =>
        /\ \A i \in 1..Len(Written) :
               \/ InList(Written[i], results)
               \/ /\ InList(Written[i], Before)
                  /\ IsoTime(Written[i].lastAdded, now) >= Cutoff
        /\ (days >= 1) =>
               \A i \in 1..Len(Written) : IsoTime(Written[i].lastAdded, now) >= Cutoff
        /\ \A i \in 1..Len(Before) :
               (IsoTime(Before[i].lastAdded, now) < Cutoff
                   /\ ~HasKey(Before[i].descrLink, results))
               => ~InList(Before[i], Written)

\* A stale record that was not re-found was evicted, and a record within the
\* window was kept.
C9_Witness ==
    /\ ppc = "done"
    /\ days >= 1
    /\ \E i \in 1..Len(Before) :
           /\ Before[i].lastAdded # NoTime
           /\ Before[i].lastAdded < Cutoff
           /\ ~HasKey(Before[i].descrLink, Written)
    /\ \E i \in 1..Len(Before) :
           /\ Before[i].lastAdded # NoTime
           /\ InList(Before[i], Written)

\* The last element of list with key k.
LastWithKey(k, list) ==
    list[CHOOSE i \in 1..Len(list) :
             /\ list[i].descrLink = k
             /\ \A j \in (i + 1)..Len(list) : list[j].descrLink # k]

\* C10: the written store holds at most one record per descrLink, and for a
\* key among the new results the stored record is the new result (the last
\* one with that key), whatever the store held for that key.
C10_UniqueKeysLastWriteWins ==
    (ppc = "done") =>
        /\ DistinctKeys(Written)
        /\ \A k \in Keys :
               HasKey(k, results) =>
                   /\ HasKey(k, Written)
                   /\ InList(LastWithKey(k, results), Written)

\* A new result replaced a retained existing record with the same key.
C10_Witness ==
    /\ ppc = "done"
    /\ \E i \in 1..Len(Before) :
           /\ IsoTime(Before[i].lastAdded, now) >= Cutoff
           /\ HasKey(Before[i].descrLink, results)
           /\ ~InList(Before[i], Written)
           /\ InList(LastWithKey(Before[i].descrLink, results), Written)

\* The key-to-record mapping of a list with one record per key.
AsMap(list) == {list[i] : i \in 1..Len(list)}

\* The store file f is missing, unreadable, not JSON or not a JSON list.
Unusable(f) == load_json(f).status # "ok" \/ ~load_json(f).list

\* C12: when the store file is missing, unreadable, not JSON or not a list,
\* publish_results completes without raising and the store it writes holds
\* exactly the new results (one record per key, the last one given).
C12_UnusableStoreReadAsEmpty ==
    (ppc # "call" /\ Unusable(store0)) =>
        /\ ppc = "done"
        /\ load_json(storeFile).status = "ok"
        /\ DistinctKeys(Written)
        /\ AsMap(Written) =
               {LastWithKey(results[i].descrLink, results) : i \in 1..Len(results)}

\* A store file cut off after its first record was replaced by the new
\* results alone.
C12_Witness ==
    /\ ppc = "done"
    /\ load_json(store0).status = "JSONDecodeError"
    /\ Len(store0.bytes) >= 2
    /\ results # <<>>
    /\ ~HasKey(store0.bytes[2].v.descrLink, results)

\* C11 as claimed: for every store, R1, R2 and retention window, publishing
\* R1 and then R2 at the same instant gives the mapping of one publish of
\* R1 followed by R2 (last write wins).
C11_TwoPublishesEqualOneMerged ==
    (ppc = "twice") =>
        AsMap(Written) = AsMap(Final(Before, results \o results2, now, days))

\* C11 as the code has it: the two publishes give the mapping of the one
\* merged publish when the retention window is at least a day, and for every
\* window publishing the same result list twice gives the mapping of
\* publishing it once.
C11_TwoPublishesEqualOneMergedWithinWindow ==
    (ppc = "twice") =>
        /\ (days >= 1) =>
               AsMap(Written) = AsMap(Final(Before, results \o results2, now, days))
        /\ (results2 = results) =>
               AsMap(Written) = AsMap(Final(Before, results, now, days))

\* Two publishes on a non-empty store, the second replacing a record the
\* first one wrote.
C11_Witness ==
    /\ ppc = "twice"
    /\ days >= 1
    /\ Before # <<>>
    /\ \E i \in 1..Len(results) :
           /\ HasKey(results[i].descrLink, results2)
           /\ ~InList(results[i], results2)
           /\ ~InList(results[i], Written)

\* The store the first of two publishes wrote.
Between == Final(Before, results, now, days)

\* Every record of old that passes the retention test and whose key is not
\* among res is a record of new, field for field.
Preserved(old, res, new) ==
    \A i \in 1..Len(old) :
        (IsoTime(old[i].lastAdded, now) >= Cutoff /\ ~HasKey(old[i].descrLink, res))
            => InList(old[i], new)

\* The store holds the results of the first publish (where the second did
\* not re-find the key) and the results of the second.
HoldsBoth ==
    /\ \A i \in 1..Len(results) :
           ~HasKey(results[i].descrLink, results2)
               => InList(LastWithKey(results[i].descrLink, results), Written)
    /\ \A i \in 1..Len(results2) :
           InList(LastWithKey(results2[i].descrLink, results2), Written)

\* C36 as claimed: publish_results keeps every existing record within the
\* retention window whose key is not among the new results, unchanged (an
\* empty result list therefore removes no such record), and after the two
\* publishes of a 'Both' run, Movies then TV, the store holds the Movies
\* results as well as the TV results, for every retention window.
C36_UnexpiredRecordsPreserved ==
    /\ (ppc = "once") => Preserved(Before, results, Written)
    /\ (ppc = "twice") =>
           /\ Preserved(Between, results2, Written)
           /\ HoldsBoth

\* C36 as the code has it: the preservation holds for every retention
\* window; the store holds the results of both publishes when the window is
\* at least a day, the first results having been stamped less than a day
\* before the second publish.
C36_UnexpiredRecordsPreservedWithinWindow ==
    /\ (ppc = "once") => Preserved(Before, results, Written)
    /\ (ppc = "twice") =>
           /\ Preserved(Between, results2, Written)
           /\ (days >= 1) => HoldsBoth

\* Two publishes with results under different keys on a store that held a
\* record: the store holds both results, the first one having been kept by
\* the second publish as an existing record.
C36_Witness ==
    /\ ppc = "twice"
    /\ days >= 1
    /\ Before # <<>>
    /\ results # <<>>
    /\ results2 # <<>>
    /\ ~HasKey(results[1].descrLink, results2)
    /\ InList(results[1], Between)
    /\ InList(results[1], Written)
    /\ InList(results2[1], Written)

(***************************************************************************)
(* Properties of one run.                                                   *)
(***************************************************************************)
\* The log has an entry of call c for request i of library l.
Logged(c, l, i) ==
    \E k \in 1..Len(log) : log[k].call = c /\ log[k].lib = l /\ log[k].req = i

\* len(search_requests) of library l, once planned.
Planned(l) ==
    IF \E k \in 1..Len(log) : log[k].call = "wanted_missing" /\ log[k].lib = l /\ log[k].ok
    THEN (CHOOSE e \in {log[k] : k \in 1..Len(log)} :
              e.call = "wanted_missing" /\ e.lib = l /\ e.ok).req
    ELSE 0

\* The store file holds a record with descrLink k.
StoreHasKey(k) ==
    \E i \in 1..Len(load_json(storeFile).data) :
        load_json(storeFile).data[i].descrLink = k

\* After a failed call for request e.req the batch went on: every later
\* request of that library was searched.
BatchWentOn(e) ==
    \A j \in (e.req + 1)..Planned(e.lib) : Logged("search", e.lib, j)

\* C3: when the search of one request raises, every later request of the
\* batch is still searched and the results found for the other requests are
\* published (checked when main() has returned).
C3_SearchFailureIsolated ==
    (rpc = "done") =>
        \A k \in 1..Len(log) :
            (log[k].call = "search" /\ ~log[k].ok) =>
                /\ BatchWentOn(log[k])
                /\ \A j \in 1..Planned(log[k].lib) :
                       (Logged("optimized", log[k].lib, j) /\ ~args.whatif)
                           => StoreHasKey(ResultKey(log[k].lib, j))

\* C4: once main() has returned, on whatever path, the run does not hold the
\* Execution Guard.
C4_GuardReleasedOnEveryExit == (rpc \in {"return", "done"}) => ~held

\* main() returned 1 because a call raised, and the guard is released.
C4_Witness == rpc = "done" /\ rrc = 1 /\ exc # "none" /\ ~held

\* C5: whenever main() returns 1 the store holds the records it held when
\* the run started (a missing store counts as an empty one).
C5_FailedRunLeavesStoreIntact ==
    (rpc = "done" /\ rrc = 1) => LoadExisting(storeFile) = LoadExisting(store0)

\* C6: when add_torrent raises for a request, the run goes on with the
\* remaining requests and the merged store is written with that request's
\* results in it (checked when main() has returned).
C6_DownloadFailureDoesNotBlockPublish ==
    (rpc = "done") =>
        \A k \in 1..Len(log) :
            (log[k].call = "add_torrent" /\ ~log[k].ok) =>
                /\ BatchWentOn(log[k])
                /\ Logged("publish", log[k].lib, 0)
                /\ StoreHasKey(ResultKey(log[k].lib, log[k].req))

\* The positions of the log entries of call c for library l.
Entries(c, l) == {k \in 1..Len(log) : log[k].call = c /\ log[k].lib = l}
\* A health check of library l failed for good (retry_until_ok raised).
GateFailed(l) ==
    \E k \in Entries("status", l) \cup Entries("version", l) : ~log[k].ok

\* C23: in a run with --name Both where a health check of the Movies
\* library fails for good, nothing is planned, searched, published or
\* refreshed for Movies, and the TV library is still processed (its health
\* checks are made), once main() has returned.
C23_GateFailureFatalForItsLibraryOnly ==
    (rpc = "done" /\ args.name = "Both" /\ GateFailed("Movies")) =>
        /\ \A c \in {"wanted_missing", "search", "publish", "update_rss"} :
              Entries(c, "Movies") = {}
        /\ Entries("status", "TV") # {}

\* C26: in the run of a library both health checks have succeeded before
\* the wanted list is fetched, every search comes after the planning, the
\* publish step comes once, after every planned request has been searched,
\* the store file changes in the publish step only, update_rss comes after
\* the publish step has returned, and each of these steps is taken while
\* the run holds the Execution Guard.
C26_PipelineOrdering ==
    /\ [](\A l \in Libraries :
            /\ \A k \in Entries("wanted_missing", l) :
                  \E i \in Entries("status", l), j \in Entries("version", l) :
                      i < j /\ j < k /\ log[i].ok /\ log[j].ok
            /\ \A k \in Entries("search", l) :
                  \E i \in Entries("wanted_missing", l) :
                      i < k /\ log[i].ok /\ log[k].req \in 1..log[i].req
            /\ Cardinality(Entries("publish", l)) <= 1
            /\ \A k \in Entries("publish", l) :
                  /\ \A j \in 1..Planned(l) :
                        \E i \in Entries("search", l) :
                            i < k /\ log[i].req = j /\ log[i].ok
                  /\ \A i \in Entries("search", l) \cup Entries("add_torrent", l) :
                        i < k
            /\ \A k \in Entries("update_rss", l) :
                  \E i \in Entries("publish", l) : i < k /\ log[i].ok)
    /\ [][/\ log' # log => (held /\ held')
          /\ storeFile' # storeFile =>
                /\ held /\ held'
                /\ Len(log') = Len(log) + 1
                /\ log'[Len(log')].call = "publish"
                /\ log'[Len(log')].ok]_vars

\* A run of both libraries went through every step for each: two requests
\* searched for TV, published and refreshed.
C26_Witness ==
    /\ rpc = "done"
    /\ rrc = 0
    /\ args.name = "Both"
    /\ ~args.whatif
    /\ Entries("update_rss", "Movies") # {}
    /\ Entries("update_rss", "TV") # {}
    /\ Cardinality(Entries("search", "TV")) = MaxRequests
    /\ StoreHasKey(ResultKey("TV", MaxRequests))

\* C27: in a run with --whatif the store file stays what it was when main()
\* was entered (absent stays absent) and add_torrent is never called, with
\* or without --qbit.
C27_DryRunChangesNothing ==
    (args.whatif /\ rpc # "idle") =>
        /\ storeFile = store0
        /\ \A l \in Libraries : Entries("add_torrent", l) = {}

\* C40: in a run with --whatif no RssSync command is sent: update_rss is not
\* called for any library, whatever the wanted lists and the searches gave.
C40_DryRunSendsNoCommand ==
    args.whatif => \A l \in Libraries : Entries("update_rss", l) = {}

\* A dry run with --qbit found results, went through the publish step and
\* returned 0 with no store file on disk.
C27_Witness ==
    /\ args.whatif
    /\ args.qbit
    /\ rpc = "done"
    /\ rrc = 0
    /\ all_top # <<>>
    /\ \E l \in Libraries : Entries("publish", l) # {} /\ Entries("optimized", l) # {}
    /\ storeFile = NoFile

(***************************************************************************)
(* Properties of the concurrent run attempts.                               *)
(***************************************************************************)
\* C1: at most one run attempt is inside the lock-guarded section of main()
\* at any time, for every interleaving of the acquire and release steps.
C1_MutualExclusion ==
    \A r1, r2 \in Runs :
        (r1 # r2) => ~(pc[r1] \in Guarded /\ pc[r2] \in Guarded)

\* C2: a feed reader that loads the store while publish_results writes it
\* gets a complete document (the previous or the new store), never an empty
\* or partly written one.
C2_ReaderSeesCompleteStore == reader.status \in {"none", "ok"}

\* The positions between publish_results' load and the end of its save.
InReadModifyWrite == {"save_open", "save_close"}

\* The store on disk holds the record published by run attempt r.
StoreHolds(r) ==
    \E i \in 1..Len(load_json(storeFile).data) :
        load_json(storeFile).data[i].descrLink = r

\* C8: every load-merge-save of publish_results runs under the Execution
\* Guard, the read-modify-write sequences of two runs never interleave, and
\* no run's published record is lost to another run's write.
C8_SerializedWriters ==
    /\ \A r \in Runs : pc[r] \in ({"load"} \cup InReadModifyWrite) => locked[r]
    /\ \A r1, r2 \in Runs :
           (r1 # r2) =>
               ~(pc[r1] \in InReadModifyWrite /\ pc[r2] \in InReadModifyWrite)
    /\ \A r \in saved :
           (\A q \in Runs : pc[q] \notin InReadModifyWrite) => StoreHolds(r)

\* Run attempt r is in acquire() while another run attempt holds the lock.
Blocked(r) ==
    /\ pc[r] \in {"open", "flock"}
    /\ \E q \in FairRuns : q # r /\ locked[q]

\* C7: a run attempt blocked in acquire() (unbounded timeout) while another
\* run holds the lock eventually acquires the lock and enters the guarded
\* section, under fair scheduling.
C7_BlockedRunEventuallyAcquires ==
    \A r \in FairRuns : Blocked(r) ~> (pc[r] = "run")

\* C24: when a run attempt has died in the guarded section without calling
\* release, the lock file still on disk, every run attempt that is in
\* acquire() eventually acquires the lock, under fair scheduling.
C24_DeadHolderDoesNotWedge ==
    \A r \in FairRuns :
        (pc[r] \in {"open", "flock"} /\ \E q \in FairRuns : pc[q] = "dead")
            ~> (pc[r] = "run")

\* A run attempt whose flock attempt had failed holds the lock of the lock
\* file a dead run attempt left on disk.
C24_Witness ==
    \E r \in FairRuns :
        /\ waiting[r] /\ locked[r] /\ pc[r] \in Guarded
        /\ link # 0 /\ fd[r] = link
        /\ \E q \in FairRuns : q # r /\ pc[q] = "dead"

\* A run attempt whose flock attempt failed now holds the lock, after the
\* earlier holder released it.
C7_Witness ==
    \E r \in FairRuns :
        /\ waiting[r] /\ locked[r] /\ pc[r] \in Guarded
        /\ \E q \in FairRuns : q # r /\ pc[q] \in {"remove", "done"}
====
